---- MODULE Spec2Model ----
(***************************************************************************)
(* IQL query engine: the SELECT pipeline of QueryExecutor, the data source *)
(* plugin it fetches from (MockPlugin.query; the other plugins share the   *)
(* same filter / sort / paginate code) and the process-wide QueryCache.    *)
(*                                                                         *)
(* Encoding of JavaScript values.  TLC orders integers only, so every      *)
(* scalar of a row is an integer:                                          *)
(*   - numbers are themselves (cpu_usage 45.2 and 23.1 are rounded to 45   *)
(*     and 23, which keeps their order);                                   *)
(*   - strings of one column are replaced by their rank in lexicographic   *)
(*     order, so <, > and === agree with the JavaScript string operators;  *)
(*   - undefined is Undefined and null is Null, both negative.             *)
(* Rows are functions from column name to value; a missing key reads as    *)
(* Undefined, as row[field] does.                                          *)
(***************************************************************************)
EXTENDS Integers, Sequences, FiniteSets, TLC

VARIABLES
    cache,       \* QueryCache.cache: Map<string, CacheEntry>, in insertion order
    hits,        \* QueryCache.hits
    misses,      \* QueryCache.misses
    enabled,     \* QueryCache.enabled
    maxSize,     \* QueryCache.maxSize
    defaultTTL,  \* QueryCache.defaultTTL
    tableTTLs,   \* QueryCache.tableTTLs
    now,         \* Date.now()
    data,        \* the rows the data source holds (MockPlugin.data)
    workload,    \* the statements the callers of this run issue
    inflight,    \* the executeSelect call suspended in its plugin fetch, and whether
                 \* the cache was cleared for its table since it probed
    ret,         \* what the last executeSelect call returned
    lastGet,     \* what the last QueryCache.get call returned
    setLog,      \* keys of the set calls since the cache was last empty by construction or clear
    disturbed,   \* an expiry, clearTable, cleanup or disabled set happened since then
    plugins,     \* PluginManager.plugins: Map<string, DataSourcePlugin>, in insertion order
    initialized, \* PluginManager.initialized: Set<string>
    objects,     \* the state of each plugin object: its lifecycle as the plugin sees it
    calls,       \* the PluginManager calls suspended in an await
    invoked,     \* the plugin method the last step invoked, if any
    outcome,     \* what the call that the last step completed returned or threw
    input,       \* Lexer.input: the characters of the query text
    position,    \* Lexer.position
    tokens,      \* Lexer.tokenize's tokens, then Parser.tokens
    current,     \* Parser.current
    parsed,      \* the Query that parse returned
    thrown,      \* the error that new Parser(input).parse() threw
    retryConfig,   \* withRetry's retryConfig: the defaults overridden by the caller's config
    timeoutConfig, \* withRetryAndTimeout's timeoutConfig, if any
    attempt,       \* withRetry's loop variable
    lastError,     \* withRetry's lastError
    stage,         \* where the withRetry call stands
    fnCalls,       \* how many times fn was invoked
    failures,      \* the errors the attempts failed with, in order
    settlement     \* what the withRetry call returned or threw

cacheVars == <<cache, hits, misses, enabled, maxSize, defaultTTL, tableTTLs, now,
               data, workload, inflight, ret, lastGet, setLog, disturbed>>

registryVars == <<plugins, initialized, objects, calls, invoked, outcome>>

parserVars == <<input, position, tokens, current, parsed, thrown>>
retryVars ==
    <<retryConfig, timeoutConfig, attempt, lastError, stage, fnCalls, failures, settlement>>

vars == <<cacheVars, registryVars, parserVars, retryVars>>

-----------------------------------------------------------------------------
(* Bounds of the model *)

\* Date.now(), counted in minutes, runs from 0 to MaxClock while queries execute.
MaxClock == 2
\* A query probes the cache while hits + misses is below MaxProbes.
MaxProbes == 2

-----------------------------------------------------------------------------
(* JavaScript values *)

Undefined == -2
Null == -1

\* !v
Falsy(v) == v \in {0, Null, Undefined}

\* ToNumber for the relational operators: null is 0.
ToNum(v) == IF v = Null THEN 0 ELSE v

\* a < b, a > b, a <= b, a >= b: every comparison with undefined is false.
JsLt(a, b) == a # Undefined /\ b # Undefined /\ ToNum(a) < ToNum(b)
JsGt(a, b) == JsLt(b, a)
JsLe(a, b) == a # Undefined /\ b # Undefined /\ ToNum(a) <= ToNum(b)
JsGe(a, b) == JsLe(b, a)
\* a == b (loose): null == undefined.
JsLooseEq(a, b) == a = b \/ (a \in {Null, Undefined} /\ b \in {Null, Undefined})

\* row[field]
Field(row, f) == IF f \in DOMAIN row THEN row[f] ELSE Undefined

\* obj[key] = value
Put(row, k, v) == [x \in DOMAIN row \cup {k} |-> IF x = k THEN v ELSE row[x]]

EmptyRow == [x \in {} |-> 0]

\* Array.prototype.reverse
Reverse(s) == [i \in 1..Len(s) |-> s[Len(s) + 1 - i]]

\* Array.prototype.slice(from) and slice(0, n)
SliceFrom(s, from) == IF from >= Len(s) THEN <<>> ELSE SubSeq(s, from + 1, Len(s))
SliceTo(s, n) == IF n >= Len(s) THEN s ELSE SubSeq(s, 1, n)

-----------------------------------------------------------------------------
(* The data source: MockPlugin *)

\* String ranks of the status columns: active < degraded < failed < success.
Active == 1
Degraded == 2
Failed == 3
Success == 4

\* MockPlugin.data.services (id svc-N is N, names are ranked api-gateway <
\* auth-service < data-processor).
Services ==
    << [id |-> 1, name |-> 1, status |-> Active,   cpu_usage |-> 45],
       [id |-> 2, name |-> 2, status |-> Active,   cpu_usage |-> 23],
       [id |-> 3, name |-> 3, status |-> Degraded, cpu_usage |-> 0] >>

\* MockPlugin.data.deployments: each service has one deployment.
Deployments ==
    << [id |-> 1, service_id |-> 1, status |-> Success, replicas |-> 2],
       [id |-> 2, service_id |-> 2, status |-> Success, replicas |-> 3],
       [id |-> 3, service_id |-> 3, status |-> Failed,  replicas |-> 1] >>

\* A data source whose service 1 has two deployments and service 2 none.
DeploymentsMulti ==
    << [id |-> 1, service_id |-> 1, status |-> Success, replicas |-> 2],
       [id |-> 2, service_id |-> 1, status |-> Success, replicas |-> 3],
       [id |-> 3, service_id |-> 3, status |-> Failed,  replicas |-> 1] >>

Tables == {"services", "deployments"}

\* typeof value === 'number'
NumericColumns == {"cpu_usage", "replicas"}

\* MockPlugin.getTables: the declared columns of each table.
TableColumns(table) ==
    IF table = "services"
    THEN << [name |-> "id", type |-> "string"], [name |-> "name", type |-> "string"],
            [name |-> "status", type |-> "string"], [name |-> "cpu_usage", type |-> "number"] >>
    ELSE << [name |-> "id", type |-> "string"], [name |-> "service_id", type |-> "string"],
            [name |-> "status", type |-> "string"] >>

\* MockPlugin.applyFilters: one filter against one row (strict comparisons).
FilterMatches(row, filter) ==
    LET value == Field(row, filter.field) IN
    CASE filter.operator = "="  -> value = filter.value
      [] filter.operator = "!=" -> value # filter.value
      [] filter.operator = ">"  -> JsGt(value, filter.value)
      [] filter.operator = "<"  -> JsLt(value, filter.value)
      [] filter.operator = ">=" -> JsGe(value, filter.value)
      [] filter.operator = "<=" -> JsLe(value, filter.value)
      [] filter.operator = "BETWEEN" ->
            JsGe(value, filter.value) /\ JsLe(value, filter.secondValue)
      [] OTHER -> TRUE

\* MockPlugin.applyFilters: rows.filter(row => filters.every(...)); SelectSeq is
\* Array.prototype.filter.
ApplyFilters(rows, filters) ==
    LET Keep(row) == \A i \in 1..Len(filters) : FilterMatches(row, filters[i])
    IN  SelectSeq(rows, Keep)

\* The comparator of MockPlugin.query's rows.sort.
Compare(a, b, order) ==
    LET aVal == Field(a, order.field)
        bVal == Field(b, order.field)
        compare == IF JsLt(aVal, bVal) THEN -1 ELSE IF JsGt(aVal, bVal) THEN 1 ELSE 0
    IN  IF order.direction = "DESC" THEN 0 - compare ELSE compare

\* Array.prototype.sort is stable: insert each row after the rows not above it.
RECURSIVE InsertSorted(_, _, _)
InsertSorted(sorted, row, order) ==
    IF sorted = <<>> THEN <<row>>
    ELSE IF Compare(Head(sorted), row, order) <= 0
         THEN <<Head(sorted)>> \o InsertSorted(Tail(sorted), row, order)
         ELSE <<row>> \o sorted

RECURSIVE SortRows(_, _)
SortRows(rows, order) ==
    IF rows = <<>> THEN <<>>
    ELSE InsertSorted(SortRows(SubSeq(rows, 1, Len(rows) - 1), order), rows[Len(rows)], order)

\* for (const order of options.orderBy.reverse()) rows.sort(...): orders is the
\* array after the reverse.
RECURSIVE SortByAll(_, _)
SortByAll(rows, orders) ==
    IF orders = <<>> THEN rows
    ELSE SortByAll(SortRows(rows, Head(orders)), Tail(orders))

\* MockPlugin.query.  options is [orderBy, limit, offset]; an unset orderBy is <<>>,
\* an unset limit or offset is Undefined.  Pagination: offset, then limit, each
\* only when truthy.
Paginate(rows, options) ==
    SliceTo(SliceFrom(rows, IF Falsy(options.offset) THEN 0 ELSE options.offset),
            IF Falsy(options.limit) THEN Len(rows) ELSE options.limit)

\* The QueryResult of a fetch; a field the plugin does not set is "" or FALSE.
QueryResult(columns, rows, totalCount) ==
    [columns |-> columns,
     rows |-> rows,
     rowCount |-> Len(rows),
     totalCount |-> totalCount,
     source |-> "",
     truncated |-> FALSE,
     warning |-> FALSE]

Paged(tableName, sorted, options) ==
    QueryResult(TableColumns(tableName), Paginate(sorted, options), Len(sorted))

PluginQuery(d, tableName, filters, options) ==
    Paged(tableName, SortByAll(ApplyFilters(d[tableName], filters), Reverse(options.orderBy)),
          options)

-----------------------------------------------------------------------------
(* Statements (the parser's SelectStatement) *)

\* An optional string that is not set (alias, aggregate) is "", an optional
\* number (limit, offset) is Undefined, an optional list or clause (joins,
\* where, groupBy, having, orderBy) is empty: the parser never builds an
\* empty list for a clause that is present.
NoClause == [conditions |-> <<>>, operator |-> "AND"]

Col(name) == [name |-> name, alias |-> "", aggregate |-> ""]
ColAs(name, alias) == [name |-> name, alias |-> alias, aggregate |-> ""]
Agg(aggregate, name, alias) == [name |-> name, alias |-> alias, aggregate |-> aggregate]
Cond(field, operator, value) ==
    [field |-> field, operator |-> operator, value |-> value, secondValue |-> Undefined]
Between(field, value, secondValue) ==
    [field |-> field, operator |-> "BETWEEN", value |-> value, secondValue |-> secondValue]
Order(field, direction) == [field |-> field, direction |-> direction]

\* SELECT * FROM services
BaseStatement ==
    [columns |-> <<Col("*")>>, from |-> "services", joins |-> <<>>, where |-> NoClause,
     groupBy |-> <<>>, having |-> NoClause, orderBy |-> <<>>,
     limit |-> Undefined, offset |-> Undefined]

-----------------------------------------------------------------------------
(* QueryExecutor.executeSelect *)

\* QueryExecutor.DEFAULT_MAX_RESULTS is 10000; the model scales it to its tables
\* of three rows.
DEFAULT_MAX_RESULTS == 2

\* Convert WHERE clause to filters: field, operator and value of each condition.
Filters(statement) ==
    [i \in 1..Len(statement.where.conditions) |->
        [field |-> statement.where.conditions[i].field,
         operator |-> statement.where.conditions[i].operator,
         value |-> statement.where.conditions[i].value,
         secondValue |-> Undefined]]

HasAggregates(statement) ==
    \E i \in 1..Len(statement.columns) : statement.columns[i].aggregate # ""

IsCacheable(statement) ==
    /\ Len(statement.joins) = 0
    /\ ~HasAggregates(statement)
    /\ Len(statement.groupBy) = 0
    /\ Len(statement.having.conditions) = 0

\* cacheOptions: {limit, offset, orderBy, columns: statement.columns.map(c => c.name)}
\* with the orderBy array as it is when the options are built.
CacheOptions(statement, orderBy) ==
    [keys |-> <<"limit", "offset", "orderBy", "columns">>,
     limit |-> statement.limit,
     offset |-> statement.offset,
     orderBy |-> orderBy,
     hasColumns |-> TRUE,
     columns |-> [i \in 1..Len(statement.columns) |-> statement.columns[i].name]]

\* Build query options: orderBy, limit and offset as the statement has them.
QueryOptions(statement) ==
    [orderBy |-> statement.orderBy, limit |-> statement.limit, offset |-> statement.offset]

\* The options {} of the right-hand fetch of a join.
NoQueryOptions == [orderBy |-> <<>>, limit |-> Undefined, offset |-> Undefined]

\* `${table}.${key}`
Qualify(table, key) == table \o "." \o key

\* getFieldName(field, defaultTable).field: the part after the dot of a
\* qualified name.
GetFieldName(field) ==
    LET names == {"id", "name", "status", "cpu_usage", "service_id", "replicas"}
        hit == {c \in names : \E t \in Tables : field = Qualify(t, c)}
    IN  IF hit = {} THEN field ELSE CHOOSE c \in hit : TRUE

\* QueryExecutor.compareValues
CompareValues(left, operator, right) ==
    CASE operator = "="  -> JsLooseEq(left, right)
      [] operator = "!=" -> ~JsLooseEq(left, right)
      [] operator = ">"  -> JsGt(left, right)
      [] operator = "<"  -> JsLt(left, right)
      [] operator = ">=" -> JsGe(left, right)
      [] operator = "<=" -> JsLe(left, right)
      [] OTHER -> FALSE

\* The merged row of a matched pair.  Rows of a base table have no dotted
\* keys, so the writes of the first loop do not collide with each other.
MergeRows(leftRow, rightRow, leftTableName, joinTable) ==
    LET leftQ == {Qualify(leftTableName, k) : k \in DOMAIN leftRow}
        afterLeft ==
            [x \in leftQ \cup DOMAIN leftRow |->
                IF x \in DOMAIN leftRow THEN leftRow[x]
                ELSE leftRow[CHOOSE k \in DOMAIN leftRow : x = Qualify(leftTableName, k)]]
        rightQ == {Qualify(joinTable, k) : k \in DOMAIN rightRow}
    IN  [x \in DOMAIN afterLeft \cup rightQ \cup DOMAIN rightRow |->
            IF x \in rightQ
            THEN rightRow[CHOOSE k \in DOMAIN rightRow : x = Qualify(joinTable, k)]
            ELSE IF x \in DOMAIN rightRow /\ Falsy(Field(afterLeft, x))
                 THEN rightRow[x]          \* if (!mergedRow[key]) mergedRow[key] = value
                 ELSE afterLeft[x]]

\* LEFT JOIN, no match: the left row and null for each declared right column.
LeftUnmatched(leftRow, rightColumns, leftTableName, joinTable) ==
    LET leftQ == {Qualify(leftTableName, k) : k \in DOMAIN leftRow}
        rightQ == {Qualify(joinTable, rightColumns[i].name) : i \in 1..Len(rightColumns)}
    IN  [x \in leftQ \cup DOMAIN leftRow \cup rightQ |->
            IF x \in rightQ THEN Null
            ELSE IF x \in DOMAIN leftRow THEN leftRow[x]
            ELSE leftRow[CHOOSE k \in DOMAIN leftRow : x = Qualify(leftTableName, k)]]

\* RIGHT JOIN, no match: null for each left column and the right row.
RightUnmatched(rightRow, leftColumns, leftTableName, joinTable) ==
    LET leftQ == {Qualify(leftTableName, leftColumns[i].name) : i \in 1..Len(leftColumns)}
        rightQ == {Qualify(joinTable, k) : k \in DOMAIN rightRow}
    IN  [x \in leftQ \cup rightQ \cup DOMAIN rightRow |->
            IF x \in rightQ
            THEN rightRow[CHOOSE k \in DOMAIN rightRow : x = Qualify(joinTable, k)]
            ELSE IF x \in DOMAIN rightRow THEN rightRow[x]
            ELSE Null]

\* The rows pushed while the outer loop is at rows[1..n].
RECURSIVE Flatten(_)
Flatten(ss) == IF ss = <<>> THEN <<>> ELSE Head(ss) \o Flatten(Tail(ss))

\* The rows pushed for one row of the outer loop: its matches or, when an
\* outer join finds none, the row padded with nulls.
MatchesOr(matches, unmatched) == IF matches # <<>> THEN matches ELSE <<unmatched>>

\* The inner loop over the right rows for one left row.
MatchesOfLeft(leftRow, rightRows, join, leftTableName) ==
    LET Hit(rightRow) ==
            CompareValues(Field(leftRow, GetFieldName(join.on.leftField)), join.on.operator,
                          Field(rightRow, GetFieldName(join.on.rightField)))
        hitRows == SelectSeq(rightRows, Hit)
    IN  [i \in 1..Len(hitRows) |-> MergeRows(leftRow, hitRows[i], leftTableName, join.table)]

\* The inner loop over the left rows for one right row.
MatchesOfRight(rightRow, leftRows, join, leftTableName) ==
    LET Hit(leftRow) ==
            CompareValues(Field(leftRow, GetFieldName(join.on.leftField)), join.on.operator,
                          Field(rightRow, GetFieldName(join.on.rightField)))
        hitRows == SelectSeq(leftRows, Hit)
    IN  [i \in 1..Len(hitRows) |-> MergeRows(hitRows[i], rightRow, leftTableName, join.table)]

\* The rows executeJoin pushes, by join type.
JoinedRows(leftResult, rightRows, join, leftTableName) ==
    CASE join.type = "INNER" ->
            Flatten([i \in 1..Len(leftResult.rows) |->
                MatchesOfLeft(leftResult.rows[i], rightRows, join, leftTableName)])
      [] join.type = "LEFT" ->
            Flatten([i \in 1..Len(leftResult.rows) |->
                MatchesOr(MatchesOfLeft(leftResult.rows[i], rightRows, join, leftTableName),
                          LeftUnmatched(leftResult.rows[i], TableColumns(join.table),
                                        leftTableName, join.table))])
      [] join.type = "RIGHT" ->
            Flatten([i \in 1..Len(rightRows) |->
                MatchesOr(MatchesOfRight(rightRows[i], leftResult.rows, join, leftTableName),
                          RightUnmatched(rightRows[i], leftResult.columns,
                                         leftTableName, join.table))])
      [] OTHER -> <<>>

\* Merge column metadata.
MergedColumns(leftColumns, rightColumns, join, leftTableName) ==
    [i \in 1..Len(leftColumns) |->
        [name |-> Qualify(leftTableName, leftColumns[i].name), type |-> leftColumns[i].type]]
    \o [i \in 1..Len(rightColumns) |->
        [name |-> Qualify(join.table, rightColumns[i].name), type |-> rightColumns[i].type]]

\* The result of executeJoin: rowCount and totalCount are joinedRows.length, the
\* source is `${leftResult.source} JOIN ${rightResult.source}`.
JoinResult(columns, joinedRows) ==
    [columns |-> columns,
     rows |-> joinedRows,
     rowCount |-> Len(joinedRows),
     totalCount |-> Len(joinedRows),
     source |-> "undefined JOIN undefined",
     truncated |-> FALSE,
     warning |-> FALSE]

\* QueryExecutor.executeJoin: the right table is fetched with no filters and no
\* options.
ExecuteJoin(d, leftResult, join, leftTableName) ==
    JoinResult(MergedColumns(leftResult.columns, TableColumns(join.table), join, leftTableName),
               JoinedRows(leftResult, PluginQuery(d, join.table, <<>>, NoQueryOptions).rows,
                          join, leftTableName))

\* for (const join of statement.joins) result = await this.executeJoin(...)
RECURSIVE ExecuteJoins(_, _, _, _)
ExecuteJoins(d, result, joins, leftTableName) ==
    IF joins = <<>> THEN result
    ELSE ExecuteJoins(d, ExecuteJoin(d, result, Head(joins), leftTableName),
                      Tail(joins), leftTableName)

-----------------------------------------------------------------------------
(* utils/aggregation *)

\* The composite key of groupRows: null and undefined both read 'NULL'.
GroupKey(row, groupByFields) ==
    [i \in 1..Len(groupByFields) |->
        IF Field(row, groupByFields[i]) \in {Null, Undefined} THEN Null
        ELSE Field(row, groupByFields[i])]

\* The keys of `grouped` in insertion order (the model groups by string
\* columns, whose keys an object lists in the order they were added).
RECURSIVE GroupKeys(_, _)
GroupKeys(rows, groupByFields) ==
    IF rows = <<>> THEN <<>>
    ELSE LET rest == GroupKeys(SubSeq(rows, 1, Len(rows) - 1), groupByFields)
             key == GroupKey(rows[Len(rows)], groupByFields)
         IN  IF \E i \in 1..Len(rest) : rest[i] = key THEN rest ELSE Append(rest, key)

\* groupRows: the groups, each the rows of one key in their order.
GroupRows(rows, groupByFields) ==
    LET keys == GroupKeys(rows, groupByFields)
    IN  [i \in 1..Len(keys) |->
            LET InGroup(row) == GroupKey(row, groupByFields) = keys[i]
            IN  SelectSeq(rows, InGroup)]

IsNumber(fieldName, value) == fieldName \in NumericColumns /\ value \notin {Null, Undefined}

RECURSIVE SumOf(_, _)
SumOf(rows, fieldName) ==
    IF rows = <<>> THEN 0
    ELSE (IF IsNumber(fieldName, Field(Head(rows), fieldName))
          THEN Field(Head(rows), fieldName) ELSE 0) + SumOf(Tail(rows), fieldName)

\* The loops of MIN and MAX: best starts as null.
RECURSIVE Extreme(_, _, _, _)
Extreme(rows, fieldName, best, wantMax) ==
    IF rows = <<>> THEN best
    ELSE LET value == Field(Head(rows), fieldName)
             better == /\ value \notin {Null, Undefined}
                       /\ \/ best = Null
                          \/ IF wantMax THEN JsGt(value, best) ELSE JsLt(value, best)
         IN  Extreme(Tail(rows), fieldName, IF better THEN value ELSE best, wantMax)

\* calculateAggregate (AVG, whose value is a fraction, is not modelled).
CalculateAggregate(aggregate, fieldName, rows) ==
    CASE aggregate = "COUNT" ->
            IF fieldName = "*" THEN Len(rows)
            ELSE LET NotNull(row) == Field(row, fieldName) \notin {Null, Undefined}
                 IN  Len(SelectSeq(rows, NotNull))
      [] aggregate = "SUM" -> SumOf(rows, fieldName)
      [] aggregate = "MIN" -> Extreme(rows, fieldName, Null, FALSE)
      [] aggregate = "MAX" -> Extreme(rows, fieldName, Null, TRUE)

\* col.aggregate.toLowerCase()
Lower(aggregate) ==
    CASE aggregate = "COUNT" -> "count"
      [] aggregate = "SUM" -> "sum"
      [] aggregate = "MIN" -> "min"
      [] aggregate = "MAX" -> "max"

\* col.alias || `${col.aggregate.toLowerCase()}(${col.name})`
ResultKey(col) ==
    IF col.alias # "" THEN col.alias ELSE Lower(col.aggregate) \o "(" \o col.name \o ")"

\* The loop over the columns of applyAggregates: the row of one group.
RECURSIVE AggregateColumns(_, _, _, _)
AggregateColumns(result, columns, groupRows, groupByFields) ==
    IF columns = <<>> THEN result
    ELSE LET col == Head(columns)
             firstRow == groupRows[1]
             next ==
                IF col.aggregate # ""
                THEN Put(result, ResultKey(col),
                         CalculateAggregate(col.aggregate, col.name, groupRows))
                ELSE IF (\A i \in 1..Len(groupByFields) : groupByFields[i] # col.name)
                        /\ col.name # "*"
                     THEN Put(result, col.name, Field(firstRow, col.name))
                     ELSE result
         IN  AggregateColumns(next, Tail(columns), groupRows, groupByFields)

\* applyAggregates: one row per group, the group-by values from its first row.
ApplyAggregates(grouped, columns, groupByFields) ==
    [g \in 1..Len(grouped) |->
        AggregateColumns(
            [f \in {groupByFields[i] : i \in 1..Len(groupByFields)} |->
                Field(grouped[g][1], f)],
            columns, grouped[g], groupByFields)]

\* The loop of applyAggregatesWithoutGrouping.
RECURSIVE AggregateOnly(_, _, _)
AggregateOnly(result, columns, rows) ==
    IF columns = <<>> THEN result
    ELSE AggregateOnly(
            IF Head(columns).aggregate # ""
            THEN Put(result, ResultKey(Head(columns)),
                     CalculateAggregate(Head(columns).aggregate, Head(columns).name, rows))
            ELSE result,
            Tail(columns), rows)

ApplyAggregatesWithoutGrouping(rows, columns) == <<AggregateOnly(EmptyRow, columns, rows)>>

\* filterHaving: every condition, loose comparisons.
FilterHaving(rows, havingConditions) ==
    LET Holds(row, condition) ==
            LET rowValue == Field(row, condition.field) IN
            CASE condition.operator = "="  -> JsLooseEq(rowValue, condition.value)
              [] condition.operator = "!=" -> ~JsLooseEq(rowValue, condition.value)
              [] condition.operator = ">"  -> JsGt(rowValue, condition.value)
              [] condition.operator = "<"  -> JsLt(rowValue, condition.value)
              [] condition.operator = ">=" -> JsGe(rowValue, condition.value)
              [] condition.operator = "<=" -> JsLe(rowValue, condition.value)
              [] OTHER -> TRUE
        Keep(row) == \A i \in 1..Len(havingConditions) : Holds(row, havingConditions[i])
    IN  SelectSeq(rows, Keep)

-----------------------------------------------------------------------------
(* QueryExecutor.executeSelect, after the fetch *)

\* columns.find(c => c.name === name)?.type || fallback
TypeOf(columns, name, fallback) ==
    IF \E i \in 1..Len(columns) : columns[i].name = name
    THEN columns[CHOOSE i \in 1..Len(columns) :
                    columns[i].name = name /\ \A j \in 1..(i - 1) : columns[j].name # name].type
    ELSE fallback

\* Aggregation branch: group or aggregate, HAVING, column metadata.
Aggregated(statement, result) ==
    LET rows1 == IF Len(statement.groupBy) > 0
                 THEN ApplyAggregates(GroupRows(result.rows, statement.groupBy),
                                      statement.columns, statement.groupBy)
                 ELSE ApplyAggregatesWithoutGrouping(result.rows, statement.columns)
        rows2 == IF Len(statement.having.conditions) > 0
                 THEN FilterHaving(rows1, statement.having.conditions)
                 ELSE rows1
        columns == [i \in 1..Len(statement.columns) |->
                      IF statement.columns[i].aggregate # ""
                      THEN [name |-> ResultKey(statement.columns[i]), type |-> "number"]
                      ELSE [name |-> statement.columns[i].name,
                            type |-> TypeOf(TableColumns(statement.from),
                                            statement.columns[i].name, "string")]]
    IN  [result EXCEPT !.rows = rows2, !.columns = columns]

\* The loop building newRow of the column selection.
RECURSIVE ProjectRow(_, _, _)
ProjectRow(newRow, row, columns) ==
    IF columns = <<>> THEN newRow
    ELSE ProjectRow(
            IF Field(row, Head(columns).name) # Undefined
            THEN Put(newRow,
                     IF Head(columns).alias # "" THEN Head(columns).alias
                     ELSE Head(columns).name,
                     row[Head(columns).name])
            ELSE newRow,
            row, Tail(columns))

\* Column selection branch (no aggregation).  A statement of the parser whose
\* first column is * has that one column and no alias, so the SELECT * branch
\* changes nothing.
Projected(statement, result) ==
    IF Len(statement.columns) > 0 /\ statement.columns[1].name # "*"
    THEN [result EXCEPT
            !.rows = [i \in 1..Len(result.rows) |->
                        ProjectRow(EmptyRow, result.rows[i], statement.columns)],
            !.columns = [i \in 1..Len(statement.columns) |->
                        [name |-> IF statement.columns[i].alias # ""
                                  THEN statement.columns[i].alias
                                  ELSE statement.columns[i].name,
                         type |-> TypeOf(result.columns, statement.columns[i].name, "string")]]]
    ELSE result

\* Apply max results limit if no explicit LIMIT was set.
Truncated(statement, result) ==
    IF statement.limit = Undefined /\ Len(result.rows) > DEFAULT_MAX_RESULTS
    THEN [result EXCEPT !.rows = SliceTo(result.rows, DEFAULT_MAX_RESULTS),
                        !.truncated = TRUE,
                        !.warning = TRUE]
    ELSE result

\* if (hasAggregates) ... else ...
AggregatedOrProjected(statement, result) ==
    IF HasAggregates(statement) THEN Aggregated(statement, result)
    ELSE Projected(statement, result)

\* The result before the truncation step: fetch, joins, aggregation or projection.
Shaped(d, statement) ==
    AggregatedOrProjected(
        statement,
        ExecuteJoins(d, PluginQuery(d, statement.from, Filters(statement),
                                    QueryOptions(statement)),
                     statement.joins, statement.from))

\* What executeSelect returns when it does not answer from the cache.
FreshResult(d, statement) == Truncated(statement, Shaped(d, statement))

\* statement.orderBy after the fetch: MockPlugin.query reversed the array of
\* options.orderBy, which is the statement's own array, in place.
OrderByAfterFetch(statement) == Reverse(statement.orderBy)

-----------------------------------------------------------------------------
(* utils/cache: QueryCache *)

\* get and set called without options.
NoOptions ==
    [keys |-> <<>>, limit |-> Undefined, offset |-> Undefined, orderBy |-> <<>>,
     hasColumns |-> FALSE, columns |-> <<>>]

\* JSON.stringify(options || {}): the properties in insertion order, those whose
\* value is undefined left out.
StringifyOptions(options) ==
    LET IsSet(k) == CASE k = "limit" -> options.limit # Undefined
                      [] k = "offset" -> options.offset # Undefined
                      [] k = "orderBy" -> options.orderBy # <<>>
                      [] k = "columns" -> options.hasColumns
    IN  [keys |-> SelectSeq(options.keys, IsSet),
         limit |-> options.limit,
         offset |-> options.offset,
         orderBy |-> options.orderBy,
         columns |-> options.columns]

\* generateKey: `${table}:${columnsStr}:${filterStr}:${optionsStr}`.  A filter
\* object of the executor has field, operator and value only: its secondValue is
\* Undefined in filterStr.
GenerateKey(table, filters, options) ==
    [table |-> table,
     columnsStr |-> [star |-> ~options.hasColumns, names |-> options.columns],
     filterStr |-> filters,
     optionsStr |-> StringifyOptions(options)]

\* getTTL: this.tableTTLs[table] || this.defaultTTL
GetTTL(table) == IF Falsy(tableTTLs[table]) THEN defaultTTL ELSE tableTTLs[table]

\* isExpired with >= for >.
IsExpiredAtTTL(entry) == now - entry.timestamp >= entry.ttl

\* isExpired
IsExpired(entry) == now - entry.timestamp > entry.ttl

\* The position of a key in the map, 0 when it is absent.
IndexOf(c, key) ==
    IF \E i \in 1..Len(c) : c[i].key = key
    THEN CHOOSE i \in 1..Len(c) : c[i].key = key
    ELSE 0

\* Map.delete
Delete(c, key) ==
    LET Other(entry) == entry.key # key IN SelectSeq(c, Other)

\* evictOldest with <= for <: the last entry of the lowest timestamp.
EvictLastOldest(c) ==
    IF c = <<>> THEN c
    ELSE LET oldest == CHOOSE i \in 1..Len(c) :
                          /\ \A j \in 1..Len(c) : c[i].timestamp <= c[j].timestamp
                          /\ \A j \in (i + 1)..Len(c) : c[j].timestamp > c[i].timestamp
         IN  SelectSeq(c, LAMBDA entry : entry.key # c[oldest].key)

\* evictOldest: the first entry, in iteration order, of the lowest timestamp.
EvictOldest(c) ==
    IF c = <<>> THEN c
    ELSE LET oldest == CHOOSE i \in 1..Len(c) :
                          /\ \A j \in 1..Len(c) : c[i].timestamp <= c[j].timestamp
                          /\ \A j \in 1..(i - 1) : c[j].timestamp > c[i].timestamp
         IN  Delete(c, c[oldest].key)

\* set: the map after the call.  Map.set keeps the position of a key it has.
CacheSet(c, table, filters, options, result) ==
    IF ~enabled THEN c
    ELSE LET room == IF Len(c) >= maxSize THEN EvictOldest(c) ELSE c
             key == GenerateKey(table, filters, options)
             entry == [key |-> key, result |-> result, timestamp |-> now,
                       ttl |-> GetTTL(table), hits |-> 0]
             at == IndexOf(room, key)
         IN  IF at = 0 THEN Append(room, entry) ELSE [room EXCEPT ![at] = entry]

\* get: the map, the counters and the returned value (<<>> is null) after the call.
CacheGet(c, table, filters, options) ==
    LET key == GenerateKey(table, filters, options)
        at == IndexOf(c, key)
    IN  IF ~enabled
        THEN [cache |-> c, hits |-> hits, misses |-> misses, returned |-> <<>>]
        ELSE IF at = 0
        THEN [cache |-> c, hits |-> hits, misses |-> misses + 1, returned |-> <<>>]
        ELSE IF IsExpired(c[at])
        THEN [cache |-> Delete(c, key), hits |-> hits, misses |-> misses + 1,
              returned |-> <<>>]
        ELSE [cache |-> [c EXCEPT ![at].hits = @ + 1], hits |-> hits + 1,
              misses |-> misses, returned |-> <<c[at].result>>]

\* clearTable: the entries whose key starts with `${table}:` are removed.
CacheClearTable(c, table) ==
    LET Other(entry) == entry.key.table # table IN SelectSeq(c, Other)

\* cleanup: the expired entries are removed.
CacheCleanup(c) ==
    LET Live(entry) == ~IsExpired(entry) IN SelectSeq(c, Live)

\* setEnabled without the clear().
KeptOnSetEnabled(c, on) == c

\* setEnabled: the map after the call; clear() when the cache is switched off.
CacheAfterSetEnabled(c, on) == IF ~on THEN <<>> ELSE c

-----------------------------------------------------------------------------
(* The statements the model executes: the base statement with one clause
   changed at a time, and the combinations of clauses the properties at the
   end of the module are about. *)

ServiceJoin(type) ==
    [type |-> type, table |-> "deployments",
     on |-> [leftField |-> "services.id", operator |-> "=",
             rightField |-> "deployments.service_id"]]

MockData == [services |-> Services, deployments |-> Deployments]
MultiData == [services |-> Services, deployments |-> DeploymentsMulti]

\* A data source whose service 1 has no status: its status column is null.
NullStatusData ==
    [services |-> [Services EXCEPT ![1].status = Null], deployments |-> Deployments]

Where(conditions, operator) == [conditions |-> conditions, operator |-> operator]

\* Column lists with and without an alias.
AliasStatements ==
    {BaseStatement,
     [BaseStatement EXCEPT !.columns = <<Col("name")>>],
     [BaseStatement EXCEPT !.columns = <<ColAs("name", "n")>>]}

\* WHERE clauses that differ in a BETWEEN upper bound or in the combinator.
WhereStatements ==
    {[BaseStatement EXCEPT !.where = w] :
        w \in {Where(<<Between("cpu_usage", 20, 30)>>, "AND"),
               Where(<<Between("cpu_usage", 20, 50)>>, "AND"),
               Where(<<Cond("status", "=", Active), Cond("cpu_usage", ">", 30)>>, "AND"),
               Where(<<Cond("status", "=", Active), Cond("cpu_usage", ">", 30)>>, "OR")}}

\* ORDER BY lists of one and two keys, in both key orders.
OrderStatements ==
    {[BaseStatement EXCEPT !.orderBy = o, !.limit = 3] :
        o \in {<<Order("cpu_usage", "ASC")>>,
               <<Order("status", "DESC"), Order("cpu_usage", "ASC")>>,
               <<Order("cpu_usage", "ASC"), Order("status", "DESC")>>}}

\* LIMIT and OFFSET, on both tables.
LimitStatements ==
    {[BaseStatement EXCEPT !.limit = 0],
     [BaseStatement EXCEPT !.limit = 1, !.offset = 1],
     [BaseStatement EXCEPT !.from = "deployments"],
     [BaseStatement EXCEPT !.from = "deployments", !.limit = 2]}

\* Joins of each type, with LIMIT and with ORDER BY on a qualified column.
JoinStatements ==
    {[BaseStatement EXCEPT !.joins = <<ServiceJoin(t)>>, !.limit = 1] :
        t \in {"INNER", "LEFT", "RIGHT"}}
    \cup {[BaseStatement EXCEPT !.joins = <<ServiceJoin("INNER")>>,
                                !.orderBy = <<Order("deployments.replicas", "ASC")>>,
                                !.limit = 3],
          BaseStatement}

\* Aggregates with and without GROUP BY, HAVING, ORDER BY on an aggregate alias,
\* LIMIT and OFFSET.
AggregateStatements ==
    {[BaseStatement EXCEPT !.columns = <<Agg("COUNT", "*", "total")>>],
     [BaseStatement EXCEPT !.columns = <<Agg("COUNT", "*", "total")>>, !.limit = 1],
     [BaseStatement EXCEPT !.columns = <<Col("status"), Agg("COUNT", "*", "cnt")>>,
                           !.groupBy = <<"status">>,
                           !.offset = 1],
     [BaseStatement EXCEPT !.columns = <<Col("status"), Agg("COUNT", "*", "cnt")>>,
                           !.groupBy = <<"status">>,
                           !.orderBy = <<Order("cnt", "ASC")>>],
     [BaseStatement EXCEPT !.columns = <<Col("status"), Agg("SUM", "cpu_usage", "")>>,
                           !.groupBy = <<"status">>,
                           !.having = Where(<<Cond("sum(cpu_usage)", ">", 10)>>, "AND")],
     [BaseStatement EXCEPT !.groupBy = <<"status">>]}

\* What one run of the program is asked: the statements its callers issue and
\* the rows its data source holds.
Scenarios ==
    {[statements |-> w, data |-> MockData] :
        w \in {AliasStatements, WhereStatements, OrderStatements, LimitStatements,
               AggregateStatements}}
    \cup {[statements |-> JoinStatements, data |-> d] :
            d \in {MockData, MultiData, NullStatusData}}

-----------------------------------------------------------------------------
(* plugins: the DataSourcePlugin objects handed to the PluginManager *)

\* The plugin objects of a run: two MockPlugin objects (MockPlugin has no
\* cleanup method) and a plugin of another name that also lists a table named
\* services, has a cleanup method and no trace method.
PluginObjects == {1, 2, 3}

Plugin(object) ==
    IF object \in {1, 2}
    THEN [name |-> "mock", tables |-> <<"services", "deployments">>,
          hasTrace |-> TRUE, hasCleanup |-> FALSE,
          hops |-> <<[source |-> "mock", table |-> "services", timestamp |-> 2],
                     [source |-> "mock", table |-> "deployments", timestamp |-> 1]>>]
    ELSE [name |-> "catalog", tables |-> <<"hosts", "services">>,
          hasTrace |-> FALSE, hasCleanup |-> TRUE, hops |-> <<>>]

PluginNames == {Plugin(object).name : object \in PluginObjects}

\* No Parser has been built.
NoParser ==
    /\ input = <<>>
    /\ position = 0
    /\ tokens = <<>>
    /\ current = 0
    /\ parsed = <<>>
    /\ thrown = <<>>

\* defaultRetryConfig.  The delays are left out: the model has no clock for
\* sleep, and calculateDelay only sets how long the call sleeps.
DefaultMaxAttempts == 3

DefaultRetryableErrors ==
    <<"ETIMEDOUT", "ECONNRESET", "ENOTFOUND", "ECONNREFUSED", "ThrottlingException",
      "RequestTimeout", "TooManyRequestsException", "ServiceUnavailable">>

DefaultRetryConfig ==
    [maxAttempts |-> DefaultMaxAttempts, retryableErrors |-> DefaultRetryableErrors]

\* withRetry has not been called.
NoRetry ==
    /\ retryConfig = DefaultRetryConfig
    /\ timeoutConfig = <<>>
    /\ attempt = 0
    /\ lastError = <<>>
    /\ stage = "none"
    /\ fnCalls = 0
    /\ failures = <<>>
    /\ settlement = <<>>

\* new PluginManager(), and plugin objects no method of which was called.
NewRegistry ==
    /\ plugins = <<>>
    /\ initialized = {}
    /\ objects = [object \in PluginObjects |-> [status |-> "new", cleaned |-> FALSE]]
    /\ calls = {}
    /\ invoked = <<>>
    /\ outcome = <<>>

-----------------------------------------------------------------------------
(* State machine *)

NoInflight == <<>>

\* The fields of the global queryCache = new QueryCache(), times in minutes:
\* maxSize 100, defaultTTL 300000 ms, deployments 60000 ms, services 300000 ms.
DefaultMaxSize == 100
DefaultTTL == 5
DefaultTableTTLs == [t \in Tables |-> IF t = "deployments" THEN 1 ELSE 5]

Init ==
    /\ cache = <<>>
    /\ hits = 0
    /\ misses = 0
    /\ enabled = TRUE
    /\ maxSize = DefaultMaxSize
    /\ defaultTTL = DefaultTTL
    /\ tableTTLs = DefaultTableTTLs
    /\ now = 0
    /\ \E scenario \in Scenarios :
        /\ workload = scenario.statements
        /\ data = scenario.data
    /\ inflight = NoInflight
    /\ ret = <<>>
    /\ lastGet = <<>>
    /\ setLog = <<>>
    /\ disturbed = FALSE
    /\ NewRegistry
    /\ NoRetry
    /\ NoParser

\* executeSelect up to its first plugin fetch: table resolution, filters, cache
\* probe.  A hit returns; otherwise the call is suspended in pluginManager.query.
ExecuteSelectProbe(statement) ==
    LET probes == IsCacheable(statement) /\ enabled
        options == CacheOptions(statement, statement.orderBy)
        got == CacheGet(cache, statement.from, Filters(statement), options)
        key == GenerateKey(statement.from, Filters(statement), options)
    IN  /\ inflight = NoInflight
        /\ probes => hits + misses < MaxProbes
        /\ IF probes
           THEN /\ cache' = got.cache
                /\ hits' = got.hits
                /\ misses' = got.misses
                /\ IF got.returned # <<>>
                   THEN /\ ret' = <<[statement |-> statement, result |-> got.returned[1],
                                     fromCache |-> TRUE, probed |-> <<key>>,
                                     stored |-> <<>>, shapedCount |-> 0]>>
                        /\ inflight' = NoInflight
                   ELSE /\ ret' = <<>>
                        /\ inflight' = <<[statement |-> statement, probed |-> <<key>>,
                                          invalidated |-> FALSE]>>
           ELSE /\ UNCHANGED <<cache, hits, misses>>
                /\ ret' = <<>>
                /\ inflight' = <<[statement |-> statement, probed |-> <<>>,
                                  invalidated |-> FALSE]>>
        /\ UNCHANGED <<enabled, maxSize, defaultTTL, tableTTLs, now, data, workload,
                       lastGet, setLog, disturbed>>
        /\ UNCHANGED registryVars
        /\ UNCHANGED parserVars
        /\ UNCHANGED retryVars

\* executeSelect from the truncation step to its return, shaped being the
\* result of the fetch, joins and aggregation or projection.
ExecuteSelectReturn(statement, probed, shaped, result) ==
    LET stores == IsCacheable(statement) /\ enabled
        options == CacheOptions(statement, OrderByAfterFetch(statement))
    IN  /\ cache' = IF stores
                    THEN CacheSet(cache, statement.from, Filters(statement), options, result)
                    ELSE cache
        /\ ret' = <<[statement |-> statement, result |-> result, fromCache |-> FALSE,
                     probed |-> probed,
                     stored |-> IF stores
                                THEN <<GenerateKey(statement.from, Filters(statement),
                                                   options)>>
                                ELSE <<>>,
                     shapedCount |-> Len(shaped.rows)]>>

\* executeSelect from the return of the fetch to its own return: joins,
\* aggregation or projection, truncation, cache insert.
ExecuteSelectComplete ==
    /\ inflight # NoInflight
    /\ \E shaped \in {Shaped(data, inflight[1].statement)} :
            ExecuteSelectReturn(inflight[1].statement, inflight[1].probed, shaped,
                                Truncated(inflight[1].statement, shaped))
    /\ inflight' = NoInflight
    /\ UNCHANGED <<hits, misses, enabled, maxSize, defaultTTL, tableTTLs, now, data, workload,
                   lastGet, setLog, disturbed>>
    /\ UNCHANGED registryVars
    /\ UNCHANGED parserVars
    /\ UNCHANGED retryVars

\* The suspended call, with the note that the cache was cleared of the
\* entries of the given tables while the call was suspended.
Invalidated(tables) ==
    IF inflight # NoInflight /\ inflight[1].statement.from \in tables
    THEN <<[inflight[1] EXCEPT !.invalidated = TRUE]>>
    ELSE inflight

\* CLEAR CACHE: queryCache.clear()
ClearCache ==
    /\ cache' = <<>>
    /\ hits' = 0
    /\ misses' = 0
    /\ ret' = <<>>
    /\ inflight' = Invalidated(Tables)
    /\ UNCHANGED <<enabled, maxSize, defaultTTL, tableTTLs, now, data, workload,
                   lastGet, setLog, disturbed>>
    /\ UNCHANGED registryVars
    /\ UNCHANGED parserVars
    /\ UNCHANGED retryVars

\* CLEAR CACHE table: queryCache.clearTable(table)
ClearCacheTable(table) ==
    /\ cache' = CacheClearTable(cache, table)
    /\ ret' = <<>>
    /\ inflight' = Invalidated({table})
    /\ UNCHANGED <<hits, misses, enabled, maxSize, defaultTTL, tableTTLs, now, data, workload,
                   lastGet, setLog, disturbed>>
    /\ UNCHANGED registryVars
    /\ UNCHANGED parserVars
    /\ UNCHANGED retryVars

\* queryCache.setEnabled(on), called while queries execute
SwitchCache(on) ==
    /\ enabled' = on
    /\ cache' = CacheAfterSetEnabled(cache, on)
    /\ hits' = IF ~on THEN 0 ELSE hits
    /\ misses' = IF ~on THEN 0 ELSE misses
    /\ ret' = <<>>
    /\ UNCHANGED <<maxSize, defaultTTL, tableTTLs, now, data, workload, inflight,
                   lastGet, setLog, disturbed>>
    /\ UNCHANGED registryVars
    /\ UNCHANGED parserVars
    /\ UNCHANGED retryVars

\* Time passes.
Tick ==
    /\ now < MaxClock
    /\ now' = now + 1
    /\ ret' = <<>>
    /\ UNCHANGED <<cache, hits, misses, enabled, maxSize, defaultTTL, tableTTLs,
                   data, workload, inflight, lastGet, setLog, disturbed>>
    /\ UNCHANGED registryVars
    /\ UNCHANGED parserVars
    /\ UNCHANGED retryVars

Next ==
    \/ \E statement \in workload : ExecuteSelectProbe(statement)
    \/ ExecuteSelectComplete
    \/ ClearCache
    \/ \E table \in Tables : ClearCacheTable(table)
    \/ \E on \in BOOLEAN : SwitchCache(on)
    \/ Tick

Spec == Init /\ [][Next]_vars

-----------------------------------------------------------------------------
(* The cache on its own: a QueryCache built with options and called directly *)

\* A cache is built with maxSize in 0..MaxCacheSize.
MaxCacheSize == 2
\* Date.now() runs from 0 to MaxTime.
MaxTime == 2
\* get is called while hits + misses is below MaxGets.
MaxGets == 2

\* The filters and results the callers pass.
CallFilters == {<<>>, <<Cond("status", "=", Active)>>}
CallResults ==
    {[columns |-> <<[name |-> "id", type |-> "string"]>>, rows |-> <<[id |-> n]>>,
      rowCount |-> 1, totalCount |-> 1, source |-> "", truncated |-> FALSE,
      warning |-> FALSE] : n \in {1}}

\* The options {limit: 1, offset: 0} and {offset: 0, limit: 1}.
LimitThenOffset ==
    [NoOptions EXCEPT !.keys = <<"limit", "offset">>, !.limit = 1, !.offset = 0]

OffsetThenLimit ==
    [NoOptions EXCEPT !.keys = <<"offset", "limit">>, !.limit = 1, !.offset = 0]

\* The callers of the cache: the methods each one calls and the tables,
\* filters and options it passes.
Callers ==
    {[calls |-> {"get", "set", "advance"},
      tables |-> Tables, filters |-> CallFilters, options |-> {NoOptions}],
     [calls |-> {"get", "set", "advance", "setTableTTL", "cleanup"},
      tables |-> Tables, filters |-> {<<>>}, options |-> {NoOptions}],
     [calls |-> {"get", "set", "clear", "clearTable", "setEnabled", "advance"},
      tables |-> Tables, filters |-> {<<>>}, options |-> {NoOptions}],
     [calls |-> {"get", "set", "advance"},
      tables |-> {"services"}, filters |-> {<<>>},
      options |-> {LimitThenOffset, OffsetThenLimit}]}

\* new QueryCache({enabled: true, defaultTTL: 1, maxSize: n}): the built-in table
\* TTLs stay.
InitCache ==
    /\ cache = <<>>
    /\ hits = 0
    /\ misses = 0
    /\ enabled = TRUE
    /\ maxSize \in 0..MaxCacheSize
    /\ defaultTTL = 1
    /\ tableTTLs = DefaultTableTTLs
    /\ now = 0
    /\ data = MockData
    /\ workload \in Callers
    /\ inflight = NoInflight
    /\ ret = <<>>
    /\ lastGet = <<>>
    /\ setLog = <<>>
    /\ disturbed = FALSE
    /\ NewRegistry
    /\ NoRetry
    /\ NoParser

\* queryCache.get(table, filters, options)
Get(table, filters, options) ==
    LET got == CacheGet(cache, table, filters, options)
        key == GenerateKey(table, filters, options)
        at == IndexOf(cache, key)
    IN  /\ enabled => hits + misses < MaxGets
        /\ cache' = got.cache
        /\ hits' = got.hits
        /\ misses' = got.misses
        /\ lastGet' = <<[key |-> key, at |-> now, wasEnabled |-> enabled,
                         found |-> IF at = 0 THEN <<>> ELSE <<cache[at]>>,
                         returned |-> got.returned]>>
        /\ disturbed' = (disturbed \/ Len(got.cache) # Len(cache))
        /\ setLog' = IF Len(got.cache) # Len(cache) THEN <<>> ELSE setLog
        /\ UNCHANGED <<enabled, maxSize, defaultTTL, tableTTLs, now, data, workload,
                       inflight, ret>>
        /\ UNCHANGED registryVars
        /\ UNCHANGED parserVars
        /\ UNCHANGED retryVars

\* queryCache.set(table, filters, options, result)
Set(table, filters, options, result) ==
    /\ cache' = CacheSet(cache, table, filters, options, result)
    /\ LET key == GenerateKey(table, filters, options)
           tracked == /\ enabled
                      /\ ~disturbed
                      /\ Len(setLog) <= maxSize
                      /\ \A i \in 1..Len(setLog) : setLog[i] # key
       IN  /\ setLog' = IF tracked THEN Append(setLog, key) ELSE <<>>
           /\ disturbed' = ~tracked
    /\ lastGet' = <<>>
    /\ UNCHANGED <<hits, misses, enabled, maxSize, defaultTTL, tableTTLs, now, data,
                   workload, inflight, ret>>
    /\ UNCHANGED registryVars
    /\ UNCHANGED parserVars
    /\ UNCHANGED retryVars

\* queryCache.clear()
Clear ==
    /\ cache' = <<>>
    /\ hits' = 0
    /\ misses' = 0
    /\ lastGet' = <<>>
    /\ setLog' = <<>>
    /\ disturbed' = FALSE
    /\ UNCHANGED <<enabled, maxSize, defaultTTL, tableTTLs, now, data, workload,
                   inflight, ret>>
    /\ UNCHANGED registryVars
    /\ UNCHANGED parserVars
    /\ UNCHANGED retryVars

\* queryCache.clearTable(table)
ClearTable(table) ==
    /\ cache' = CacheClearTable(cache, table)
    /\ lastGet' = <<>>
    /\ disturbed' = TRUE
    /\ setLog' = <<>>
    /\ UNCHANGED <<hits, misses, enabled, maxSize, defaultTTL, tableTTLs, now, data,
                   workload, inflight, ret>>
    /\ UNCHANGED registryVars
    /\ UNCHANGED parserVars
    /\ UNCHANGED retryVars

\* queryCache.setEnabled(on)
SetEnabled(on) ==
    /\ enabled' = on
    /\ cache' = CacheAfterSetEnabled(cache, on)
    /\ hits' = IF ~on THEN 0 ELSE hits
    /\ misses' = IF ~on THEN 0 ELSE misses
    /\ lastGet' = <<>>
    /\ setLog' = IF on /\ enabled THEN setLog ELSE <<>>
    /\ disturbed' = IF on /\ enabled THEN disturbed ELSE ~on
    /\ UNCHANGED <<maxSize, defaultTTL, tableTTLs, now, data, workload, inflight, ret>>
    /\ UNCHANGED registryVars
    /\ UNCHANGED parserVars
    /\ UNCHANGED retryVars

\* queryCache.setTableTTL(table, ttl)
SetTableTTL(table, ttl) ==
    /\ tableTTLs' = [tableTTLs EXCEPT ![table] = ttl]
    /\ lastGet' = <<>>
    /\ UNCHANGED <<cache, hits, misses, enabled, maxSize, defaultTTL, now, data,
                   workload, inflight, ret, setLog, disturbed>>
    /\ UNCHANGED registryVars
    /\ UNCHANGED parserVars
    /\ UNCHANGED retryVars

\* queryCache.cleanup()
Cleanup ==
    /\ cache' = CacheCleanup(cache)
    /\ lastGet' = <<>>
    /\ disturbed' = TRUE
    /\ setLog' = <<>>
    /\ UNCHANGED <<hits, misses, enabled, maxSize, defaultTTL, tableTTLs, now, data,
                   workload, inflight, ret>>
    /\ UNCHANGED registryVars
    /\ UNCHANGED parserVars
    /\ UNCHANGED retryVars

\* Time passes.
Advance ==
    /\ now < MaxTime
    /\ now' = now + 1
    /\ lastGet' = <<>>
    /\ UNCHANGED <<cache, hits, misses, enabled, maxSize, defaultTTL, tableTTLs,
                   data, workload, inflight, ret, setLog, disturbed>>
    /\ UNCHANGED registryVars
    /\ UNCHANGED parserVars
    /\ UNCHANGED retryVars

NextCache ==
    \/ /\ "get" \in workload.calls
       /\ \E table \in workload.tables, filters \in workload.filters,
             options \in workload.options : Get(table, filters, options)
    \/ /\ "set" \in workload.calls
       /\ \E table \in workload.tables, filters \in workload.filters,
             options \in workload.options, result \in CallResults :
               Set(table, filters, options, result)
    \/ "clear" \in workload.calls /\ Clear
    \/ /\ "clearTable" \in workload.calls
       /\ \E table \in workload.tables : ClearTable(table)
    \/ "setEnabled" \in workload.calls /\ \E on \in BOOLEAN : SetEnabled(on)
    \/ /\ "setTableTTL" \in workload.calls
       /\ \E ttl \in {0, 2} : SetTableTTL("services", ttl)
    \/ "cleanup" \in workload.calls /\ Cleanup
    \/ "advance" \in workload.calls /\ Advance

SpecCache == InitCache /\ [][NextCache]_vars

-----------------------------------------------------------------------------
(* plugins: PluginManager *)

\* At most MaxCalls PluginManager calls are suspended at a time.
MaxCalls == 2

\* A suspended call of the PluginManager: the plugin object whose promise it
\* awaits, and the locals of the call (the position of its iteration, the
\* sources still to visit, what it has accumulated, the plugin objects that
\* rejected, and the registry, the sources asked for and the plugin objects as
\* the call found them).
Suspended(op, object, name, purpose, target, last, rest, acc, raised, from) ==
    [op |-> op, object |-> object, name |-> name, purpose |-> purpose, target |-> target,
     last |-> last, rest |-> rest, acc |-> acc, raised |-> raised, from |-> from]

Awaiting(op, object, name) ==
    Suspended(op, object, name, "", "", 0, <<>>, <<>>, {}, <<>>)

\* this.plugins.has(name)
HasPlugin(name) == \E i \in 1..Len(plugins) : plugins[i].name = name

\* this.plugins.get(name): the plugin object, 0 when there is none.
PluginOf(name) ==
    IF HasPlugin(name)
    THEN plugins[CHOOSE i \in 1..Len(plugins) : plugins[i].name = name].object
    ELSE 0

\* this.plugins.delete(name)
WithoutPlugin(name) ==
    LET Other(entry) == entry.name # name IN SelectSeq(plugins, Other)

\* The position Map.set gives a new key: after every key set before it.
NextStamp == Cardinality({o \in PluginObjects : objects[o].status \notin {"new", "rejected"}}) + 1

\* getPlugin: the plugin object or the PluginError thrown.
GetPlugin(name) ==
    IF ~HasPlugin(name) \/ name \notin initialized
    THEN [error |-> "PLUGIN_ERROR", object |-> 0]
    ELSE [error |-> "", object |-> PluginOf(name)]

\* A serving method of a plugin object is called: what the object has seen of
\* its own lifecycle at that moment.
Invocation(object, method) ==
    [object |-> object, method |-> method,
     ready |-> objects[object].status = "ready",
     cleaned |-> objects[object].cleaned]

\* registerPlugin past its check of the name: the entry is set and
\* plugin.initialize is called and awaited.
InsertAndInitialize(object) ==
    /\ Cardinality(calls) < MaxCalls
    /\ plugins' = Append(plugins, [name |-> Plugin(object).name, object |-> object,
                                   stamp |-> NextStamp])
    /\ objects' = [objects EXCEPT ![object].status = "initializing"]
    /\ calls' = calls \cup {Awaiting("registerPlugin", object, Plugin(object).name)}
    /\ outcome' = <<>>
    /\ UNCHANGED initialized

\* registerPlugin without the check of the name.
RegisterUnchecked(object) ==
    /\ objects[object].status = "new"
    /\ invoked' = <<>>
    /\ InsertAndInitialize(object)
    /\ UNCHANGED cacheVars
    /\ UNCHANGED parserVars
    /\ UNCHANGED retryVars

\* registerPlugin up to the await of plugin.initialize.  Each plugin object is
\* handed to registerPlugin once.
RegisterPlugin(object) ==
    /\ objects[object].status = "new"
    /\ invoked' = <<>>
    /\ IF HasPlugin(Plugin(object).name)
       THEN /\ objects' = [objects EXCEPT ![object].status = "rejected"]
            /\ outcome' = <<[op |-> "registerPlugin", object |-> object,
                             error |-> "PLUGIN_ERROR", cause |-> FALSE,
                             pluginsBefore |-> plugins,
                             initializedBefore |-> initialized]>>
            /\ UNCHANGED <<plugins, initialized, calls>>
       ELSE InsertAndInitialize(object)
    /\ UNCHANGED cacheVars
    /\ UNCHANGED parserVars
    /\ UNCHANGED retryVars

\* registerPlugin from the return of plugin.initialize on: ok is whether
\* initialize resolved.
InitializeReturns(object, ok) ==
    /\ Awaiting("registerPlugin", object, Plugin(object).name) \in calls
    /\ calls' = calls \ {Awaiting("registerPlugin", object, Plugin(object).name)}
    /\ invoked' = <<>>
    /\ IF ok
       THEN /\ initialized' = initialized \cup {Plugin(object).name}
            /\ objects' = [objects EXCEPT ![object].status = "ready"]
            /\ outcome' = <<[op |-> "registerPlugin", object |-> object, error |-> "",
                             cause |-> FALSE, pluginsBefore |-> plugins,
                             initializedBefore |-> initialized]>>
            /\ UNCHANGED plugins
       ELSE /\ plugins' = WithoutPlugin(Plugin(object).name)
            /\ objects' = [objects EXCEPT ![object].status = "failed"]
            /\ outcome' = <<[op |-> "registerPlugin", object |-> object,
                             error |-> "PLUGIN_ERROR", cause |-> TRUE,
                             pluginsBefore |-> plugins,
                             initializedBefore |-> initialized]>>
            /\ UNCHANGED initialized
    /\ UNCHANGED cacheVars
    /\ UNCHANGED parserVars
    /\ UNCHANGED retryVars

\* unregisterPlugin up to the await of plugin.cleanup, or to its end when the
\* plugin has no cleanup method.
UnregisterPlugin(name) ==
    /\ invoked' = <<>>
    /\ IF ~HasPlugin(name)
       THEN /\ outcome' = <<[op |-> "unregisterPlugin", name |-> name,
                             error |-> "PLUGIN_ERROR"]>>
            /\ UNCHANGED <<plugins, initialized, objects, calls>>
       ELSE IF Plugin(PluginOf(name)).hasCleanup
       THEN /\ Cardinality(calls) < MaxCalls
            /\ Awaiting("unregisterPlugin", PluginOf(name), name) \notin calls
            /\ objects' = [objects EXCEPT ![PluginOf(name)].cleaned = TRUE]
            /\ calls' = calls \cup {Awaiting("unregisterPlugin", PluginOf(name), name)}
            /\ outcome' = <<>>
            /\ UNCHANGED <<plugins, initialized>>
       ELSE /\ plugins' = WithoutPlugin(name)
            /\ initialized' = initialized \ {name}
            /\ outcome' = <<[op |-> "unregisterPlugin", name |-> name, error |-> ""]>>
            /\ UNCHANGED <<objects, calls>>
    /\ UNCHANGED cacheVars
    /\ UNCHANGED parserVars
    /\ UNCHANGED retryVars

\* unregisterPlugin from the return of plugin.cleanup on; a rejection of
\* cleanup is logged and changes nothing.
UnregisterReturns(object, name) ==
    /\ Awaiting("unregisterPlugin", object, name) \in calls
    /\ calls' = calls \ {Awaiting("unregisterPlugin", object, name)}
    /\ plugins' = WithoutPlugin(name)
    /\ initialized' = initialized \ {name}
    /\ invoked' = <<>>
    /\ outcome' = <<[op |-> "unregisterPlugin", name |-> name, error |-> ""]>>
    /\ UNCHANGED objects
    /\ UNCHANGED cacheVars
    /\ UNCHANGED parserVars
    /\ UNCHANGED retryVars

\* PluginManager.query: getPlugin, then plugin.query is called; raises is
\* whether the plugin rejects.
Query(name, raises) ==
    /\ IF GetPlugin(name).error # ""
       THEN /\ ~raises
            /\ invoked' = <<>>
            /\ outcome' = <<[op |-> "query", name |-> name, error |-> "PLUGIN_ERROR"]>>
       ELSE /\ invoked' = <<Invocation(GetPlugin(name).object, "query")>>
            /\ outcome' = <<[op |-> "query", name |-> name,
                             error |-> IF raises THEN "PLUGIN_ERROR" ELSE ""]>>
    /\ UNCHANGED <<plugins, initialized, objects, calls>>
    /\ UNCHANGED cacheVars
    /\ UNCHANGED parserVars
    /\ UNCHANGED retryVars

\* getAllTables: the entries after the position last of the map that the loop
\* calls getTables on, in the order of the map.
ListedAfter(last) ==
    LET Listed(entry) == entry.stamp > last /\ entry.name \in initialized
    IN  SelectSeq(plugins, Listed)

\* tables.forEach(table => allTables.push({...table, source: name}))
RECURSIVE WithSource(_, _)
WithSource(tables, name) ==
    IF tables = <<>> THEN <<>>
    ELSE <<[name |-> Head(tables), source |-> name]>> \o WithSource(Tail(tables), name)

\* allTables.find(t => t.name === target): its position, 0 when there is none.
FindTable(allTables, target) ==
    IF \E i \in 1..Len(allTables) : allTables[i].name = target
    THEN CHOOSE i \in 1..Len(allTables) :
            /\ allTables[i].name = target
            /\ \A j \in 1..(i - 1) : allTables[j].name # target
    ELSE 0

\* What the caller of getAllTables makes of the catalogue: SHOW TABLES lists
\* it, SELECT and DESCRIBE look their table up in it.
Catalogued(purpose, target, allTables, raised, from) ==
    [op |-> purpose, target |-> target, items |-> allTables, raised |-> raised,
     from |-> from,
     error |-> IF purpose \in {"select", "describe"} /\ FindTable(allTables, target) = 0
               THEN "EXECUTION_ERROR" ELSE "",
     source |-> IF purpose \in {"select", "describe"} /\ FindTable(allTables, target) # 0
                THEN allTables[FindTable(allTables, target)].source ELSE ""]

\* getAllTables from the top of its loop: it calls getTables of the next
\* initialised plugin and suspends, or returns to its caller.  others are the
\* other suspended calls.
ScanFrom(others, purpose, target, last, allTables, raised, from) ==
    IF ListedAfter(last) = <<>>
    THEN /\ invoked' = <<>>
         /\ outcome' = <<Catalogued(purpose, target, allTables, raised, from)>>
         /\ calls' = others
    ELSE /\ invoked' = <<Invocation(Head(ListedAfter(last)).object, "getTables")>>
         /\ outcome' = <<>>
         /\ calls' = others \cup
                {Suspended("getAllTables", Head(ListedAfter(last)).object,
                           Head(ListedAfter(last)).name, purpose, target,
                           Head(ListedAfter(last)).stamp, <<>>, allTables, raised, from)}

\* SHOW TABLES (purpose show), the table resolution of SELECT and DESCRIBE,
\* and a direct call of getAllTables (purpose tables), up to the first await
\* of plugin.getTables.
GetAllTables(purpose, target) ==
    /\ Cardinality(calls) < MaxCalls
    /\ \A call \in calls : call.op # "getAllTables"
    /\ ScanFrom(calls, purpose, target, 0, <<>>, {}, <<plugins, initialized, <<>>, objects>>)
    /\ UNCHANGED <<plugins, initialized, objects>>
    /\ UNCHANGED cacheVars
    /\ UNCHANGED parserVars
    /\ UNCHANGED retryVars

\* getAllTables with its try around the whole loop: a rejection of getTables
\* loses the tables pushed so far.
GetTablesReturnsLosing(call, raises) ==
    /\ call \in calls
    /\ call.op = "getAllTables"
    /\ ScanFrom(calls \ {call}, call.purpose, call.target, call.last,
                IF raises THEN <<>>
                ELSE call.acc \o WithSource(Plugin(call.object).tables, call.name),
                IF raises THEN call.raised \cup {call.object} ELSE call.raised,
                call.from)
    /\ UNCHANGED <<plugins, initialized, objects>>
    /\ UNCHANGED cacheVars
    /\ UNCHANGED parserVars
    /\ UNCHANGED retryVars

\* getAllTables from the return of plugin.getTables on: raises is whether the
\* plugin rejected, which is logged.
GetTablesReturns(call, raises) ==
    /\ call \in calls
    /\ call.op = "getAllTables"
    /\ ScanFrom(calls \ {call}, call.purpose, call.target, call.last,
                IF raises THEN call.acc
                ELSE call.acc \o WithSource(Plugin(call.object).tables, call.name),
                IF raises THEN call.raised \cup {call.object} ELSE call.raised,
                call.from)
    /\ UNCHANGED <<plugins, initialized, objects>>
    /\ UNCHANGED cacheVars
    /\ UNCHANGED parserVars
    /\ UNCHANGED retryVars

\* allHops.sort((a, b) => time of a - time of b): a stable sort.
RECURSIVE SortHops(_)
SortHops(hops) ==
    IF hops = <<>> THEN <<>>
    ELSE LET sorted == SortHops(SubSeq(hops, 1, Len(hops) - 1))
             hop == hops[Len(hops)]
             Before(other) == other.timestamp <= hop.timestamp
             After(other) == other.timestamp > hop.timestamp
         IN  SelectSeq(sorted, Before) \o <<hop>> \o SelectSeq(sorted, After)

\* trace: the sources left once the loop has passed ("continue") the sources
\* at the head of rest whose plugin has no trace method.
RECURSIVE SkipUntraced(_)
SkipUntraced(rest) ==
    IF rest = <<>> THEN <<>>
    ELSE IF /\ GetPlugin(Head(rest)).error = ""
            /\ ~Plugin(GetPlugin(Head(rest)).object).hasTrace
    THEN SkipUntraced(Tail(rest))
    ELSE rest

\* trace from the top of its loop over rest, which SkipUntraced has been
\* applied to: it returns the sorted hops, or getPlugin throws, or it calls
\* trace of the plugin of the next source and suspends.
TraceFrom(others, rest, allHops, raised, from) ==
    IF rest = <<>>
    THEN /\ invoked' = <<>>
         /\ outcome' = <<[op |-> "trace", sources |-> from[3], hops |-> SortHops(allHops),
                          raised |-> raised, from |-> from, error |-> ""]>>
         /\ calls' = others
    ELSE IF GetPlugin(Head(rest)).error # ""
    THEN /\ invoked' = <<>>
         /\ outcome' = <<[op |-> "trace", sources |-> from[3], hops |-> <<>>,
                          raised |-> raised, from |-> from, error |-> "PLUGIN_ERROR"]>>
         /\ calls' = others
    ELSE /\ invoked' = <<Invocation(GetPlugin(Head(rest)).object, "trace")>>
         /\ outcome' = <<>>
         /\ calls' = others \cup
                {Suspended("trace", GetPlugin(Head(rest)).object, Head(rest), "", "", 0,
                           Tail(rest), allHops, raised, from)}

\* PluginManager.trace, as executeTrace calls it, up to the first await of
\* plugin.trace.
Trace(sources) ==
    /\ Cardinality(calls) < MaxCalls
    /\ \A call \in calls : call.op # "trace"
    /\ TraceFrom(calls, SkipUntraced(sources), <<>>, {}, <<plugins, initialized, sources, objects>>)
    /\ UNCHANGED <<plugins, initialized, objects>>
    /\ UNCHANGED cacheVars
    /\ UNCHANGED parserVars
    /\ UNCHANGED retryVars

\* trace from the return of plugin.trace on: raises is whether the plugin
\* rejected, which is logged.
TraceReturns(call, raises) ==
    /\ call \in calls
    /\ call.op = "trace"
    /\ TraceFrom(calls \ {call}, SkipUntraced(call.rest),
                 IF raises THEN call.acc ELSE call.acc \o Plugin(call.object).hops,
                 IF raises THEN call.raised \cup {call.object} ELSE call.raised,
                 call.from)
    /\ UNCHANGED <<plugins, initialized, objects>>
    /\ UNCHANGED cacheVars
    /\ UNCHANGED parserVars
    /\ UNCHANGED retryVars

\* PluginManager.cleanup up to the await of Promise.all: cleanup is called on
\* every plugin of the map that has the method.
CleanupAll ==
    /\ Cardinality(calls) < MaxCalls
    /\ Awaiting("cleanup", 0, "") \notin calls
    /\ objects' = [object \in PluginObjects |->
                    IF /\ \E i \in 1..Len(plugins) : plugins[i].object = object
                       /\ Plugin(object).hasCleanup
                    THEN [objects[object] EXCEPT !.cleaned = TRUE]
                    ELSE objects[object]]
    /\ calls' = calls \cup {Awaiting("cleanup", 0, "")}
    /\ invoked' = <<>>
    /\ outcome' = <<>>
    /\ UNCHANGED <<plugins, initialized>>
    /\ UNCHANGED cacheVars
    /\ UNCHANGED parserVars
    /\ UNCHANGED retryVars

\* PluginManager.cleanup after Promise.all
CleanupAllReturns ==
    /\ Awaiting("cleanup", 0, "") \in calls
    /\ calls' = calls \ {Awaiting("cleanup", 0, "")}
    /\ plugins' = <<>>
    /\ initialized' = {}
    /\ invoked' = <<>>
    /\ outcome' = <<[op |-> "cleanup", error |-> ""]>>
    /\ UNCHANGED objects
    /\ UNCHANGED cacheVars
    /\ UNCHANGED parserVars
    /\ UNCHANGED retryVars

\* The THROUGH lists of the TRACE statements: datadog is never registered.
TraceSources == {<<"mock">>, <<"catalog", "mock">>, <<"datadog", "mock">>}

\* The tables SELECT and DESCRIBE name.
Targets == {"services", "hosts"}

\* The callers of a run: the PluginManager methods they call and the plugin
\* objects they register.
RegistryCallers ==
    {[calls |-> {"registerPlugin", "unregisterPlugin", "query", "cleanup"},
      objects |-> {1, 2, 3}],
     [calls |-> {"registerPlugin", "unregisterPlugin", "getAllTables"},
      objects |-> {1, 3}],
     [calls |-> {"registerPlugin", "unregisterPlugin", "trace"},
      objects |-> {1, 3}]}

InitRegistry ==
    /\ cache = <<>>
    /\ hits = 0
    /\ misses = 0
    /\ enabled = TRUE
    /\ maxSize = DefaultMaxSize
    /\ defaultTTL = DefaultTTL
    /\ tableTTLs = DefaultTableTTLs
    /\ now = 0
    /\ data = MockData
    /\ workload \in RegistryCallers
    /\ inflight = NoInflight
    /\ ret = <<>>
    /\ lastGet = <<>>
    /\ setLog = <<>>
    /\ disturbed = FALSE
    /\ NewRegistry
    /\ NoRetry
    /\ NoParser

NextRegistry ==
    \/ /\ "registerPlugin" \in workload.calls
       /\ \E object \in workload.objects : RegisterPlugin(object)
    \/ \E object \in PluginObjects, ok \in BOOLEAN : InitializeReturns(object, ok)
    \/ /\ "unregisterPlugin" \in workload.calls
       /\ \E name \in PluginNames : UnregisterPlugin(name)
    \/ \E object \in PluginObjects, name \in PluginNames : UnregisterReturns(object, name)
    \/ /\ "query" \in workload.calls
       /\ \E name \in PluginNames, raises \in BOOLEAN : Query(name, raises)
    \/ /\ "getAllTables" \in workload.calls
       /\ \E purpose \in {"show", "tables"} : GetAllTables(purpose, "")
    \/ /\ "getAllTables" \in workload.calls
       /\ \E purpose \in {"select", "describe"}, target \in Targets :
            GetAllTables(purpose, target)
    \/ \E call \in calls, raises \in BOOLEAN : GetTablesReturns(call, raises)
    \/ "trace" \in workload.calls /\ \E sources \in TraceSources : Trace(sources)
    \/ \E call \in calls, raises \in BOOLEAN : TraceReturns(call, raises)
    \/ "cleanup" \in workload.calls /\ CleanupAll
    \/ CleanupAllReturns

SpecRegistry == InitRegistry /\ [][NextRegistry]_vars

-----------------------------------------------------------------------------
(* parser: Lexer and Parser *)

\* A query text has at most MaxWords words.
MaxWords == 3

\* The words of the query texts: keywords, an identifier, a star, a string, a
\* string without its closing quote, and a character no token starts with.
Vocabulary == {"show", "tables", "describe", "services", "*", "'s'", "'s", "@"}

\* The characters of a word.
Spell(word) ==
    CASE word = "show" -> <<"s", "h", "o", "w">>
      [] word = "tables" -> <<"t", "a", "b", "l", "e", "s">>
      [] word = "describe" -> <<"d", "e", "s", "c", "r", "i", "b", "e">>
      [] word = "services" -> <<"s", "e", "r", "v", "i", "c", "e", "s">>
      [] word = "*" -> <<"*">>
      [] word = "'s'" -> <<"'", "s", "'">>
      [] word = "'s" -> <<"'", "s">>
      [] word = "@" -> <<"@">>
      [] word = "select" -> <<"s", "e", "l", "e", "c", "t">>
      [] word = "from" -> <<"f", "r", "o", "m">>
      [] word = "where" -> <<"w", "h", "e", "r", "e">>
      [] word = "between" -> <<"b", "e", "t", "w", "e", "e", "n">>
      [] word = "and" -> <<"a", "n", "d">>
      [] word = "or" -> <<"o", "r">>
      [] word = "in" -> <<"i", "n">>
      [] word = "limit" -> <<"l", "i", "m", "i", "t">>
      [] word = "id" -> <<"i", "d">>
      [] word = "=" -> <<"=">>
      [] word = "(" -> <<"(">>
      [] word = ")" -> <<")">>
      [] word = "," -> <<",">>
      [] word = "1" -> <<"1">>
      [] word = "2" -> <<"2">>

\* The characters of a text: its words with a space between two of them.
RECURSIVE Characters(_)
Characters(words) ==
    IF words = <<>> THEN <<>>
    ELSE IF Len(words) = 1 THEN Spell(words[1])
    ELSE Spell(Head(words)) \o <<" ">> \o Characters(Tail(words))

Texts == UNION {[1..n -> Vocabulary] : n \in 0..MaxWords}

\* isAlpha over the letters of the texts, which are lower case.
Letters ==
    {"a", "b", "c", "d", "e", "f", "h", "i", "l", "m", "n", "o", "r", "s", "t", "v", "w"}

\* isDigit over the digits of the texts.
Digits == {"1", "2"}

\* String.toUpperCase on one letter.
UpperCase(char) ==
    CASE char = "a" -> "A" [] char = "b" -> "B" [] char = "c" -> "C"
      [] char = "d" -> "D" [] char = "e" -> "E" [] char = "h" -> "H"
      [] char = "i" -> "I" [] char = "l" -> "L" [] char = "o" -> "O"
      [] char = "r" -> "R" [] char = "s" -> "S" [] char = "t" -> "T"
      [] char = "v" -> "V" [] char = "w" -> "W" [] char = "f" -> "F"
      [] char = "m" -> "M" [] char = "n" -> "N" [] OTHER -> char

\* Lexer.keywords, as far as the texts go.
Keywords ==
    {"SHOW", "TABLES", "PLUGINS", "DESCRIBE", "SELECT", "FROM", "TRACE", "WHERE", "BETWEEN",
     "AND", "OR", "IN", "LIMIT"}

\* skipWhitespace: the position of the first character from at on that is not
\* white space.
RECURSIVE SkipWhitespace(_, _)
SkipWhitespace(text, at) ==
    IF at < Len(text) /\ text[at + 1] = " " THEN SkipWhitespace(text, at + 1) ELSE at

\* A token; upper is value.toUpperCase().  Lines and columns are left out.
Token(type, value, upper, at) ==
    [type |-> type, value |-> value, upper |-> upper, position |-> at]

\* readIdentifier's loop: the letters and digits from at on, as written and in
\* upper case.
RECURSIVE ReadLetters(_, _)
ReadLetters(text, at) ==
    IF at < Len(text) /\ (text[at + 1] \in Letters \cup Digits \/ text[at + 1] = "_")
    THEN LET rest == ReadLetters(text, at + 1)
         IN  [value |-> text[at + 1] \o rest.value,
              upper |-> UpperCase(text[at + 1]) \o rest.upper,
              next |-> rest.next]
    ELSE [value |-> "", upper |-> "", next |-> at]

\* readIdentifier: a keyword token carries the upper-case value.
ReadIdentifier(text, at, read) ==
    [thrown |-> <<>>,
     token |-> <<Token(IF read.upper \in Keywords THEN read.upper ELSE "IDENTIFIER",
                       IF read.upper \in Keywords THEN read.upper ELSE read.value,
                       read.upper, at)>>,
     next |-> read.next]

\* readString's loop: the characters from at up to the quote or the end.
RECURSIVE ReadToQuote(_, _, _)
ReadToQuote(text, at, quote) ==
    IF at < Len(text) /\ text[at + 1] # quote
    THEN LET rest == ReadToQuote(text, at + 1, quote)
         IN  [value |-> text[at + 1] \o rest.value, next |-> rest.next]
    ELSE [value |-> "", next |-> at]

\* A plain Error, which has no code.
PlainError(message) == [name |-> "Error", message |-> message, code |-> "undefined"]

\* new ParseError(message, details)
ParseError(message) == [name |-> "ParseError", message |-> message, code |-> "PARSE_ERROR"]

\* readString
ReadString(text, at, read) ==
    IF read.next >= Len(text)
    THEN [thrown |-> <<PlainError("Unterminated string")>>, token |-> <<>>, next |-> at]
    ELSE [thrown |-> <<>>, token |-> <<Token("STRING", read.value, read.value, at)>>,
          next |-> read.next + 1]

\* readNumber's loop: the digits and dots from at on.
RECURSIVE ReadDigits(_, _)
ReadDigits(text, at) ==
    IF at < Len(text) /\ (text[at + 1] \in Digits \/ text[at + 1] = ".")
    THEN LET rest == ReadDigits(text, at + 1)
         IN  [value |-> text[at + 1] \o rest.value, next |-> rest.next]
    ELSE [value |-> "", next |-> at]

\* readNumber
ReadNumber(text, at, read) ==
    [thrown |-> <<>>, token |-> <<Token("NUMBER", read.value, read.value, at)>>,
     next |-> read.next]

\* nextToken at a position that holds a character.  The texts have no
\* comparison sign but = and no comment.
NextToken(text, at) ==
    IF text[at + 1] \in {",", ".", "(", ")", "*", "="}
    THEN [thrown |-> <<>>, token |-> <<Token(text[at + 1], text[at + 1], text[at + 1], at)>>,
          next |-> at + 1]
    ELSE IF text[at + 1] \in {"'", "\""}
    THEN ReadString(text, at, ReadToQuote(text, at + 1, text[at + 1]))
    ELSE IF text[at + 1] \in Digits
    THEN ReadNumber(text, at, ReadDigits(text, at))
    ELSE IF text[at + 1] \in Letters \/ text[at + 1] = "_"
    THEN ReadIdentifier(text, at, ReadLetters(text, at))
    ELSE [thrown |-> <<PlainError("Unexpected character")>>, token |-> <<>>, next |-> at]

\* The end-of-input token.
EndOfInput(at) == Token("EOF", "", "", at)

\* Parser.peek
Peek(toks, cur) == toks[cur + 1]

\* Parser.check
Check(toks, cur, type) == Peek(toks, cur).type # "EOF" /\ Peek(toks, cur).type = type

\* What a parse method gives: the Query or the error thrown, and Parser.current.
Parsed(query, cur) == [thrown |-> <<>>, query |-> <<query>>, current |-> cur]

Rejected(message, cur) ==
    [thrown |-> <<ParseError(message)>>, query |-> <<>>, current |-> cur]

\* parseDescribe
ParseDescribe(toks, cur) ==
    IF ~Check(toks, cur, "DESCRIBE") THEN Rejected("Expected DESCRIBE", cur)
    ELSE IF ~Check(toks, cur + 1, "IDENTIFIER") THEN Rejected("Expected table name", cur + 1)
    ELSE Parsed([type |-> "DESCRIBE", target |-> Peek(toks, cur + 1).value], cur + 2)

\* parseShow.  Peek(toks, cur + 1) exists: the token at cur is not the last.
ParseShow(toks, cur) ==
    IF ~Check(toks, cur, "SHOW") THEN Rejected("Expected SHOW", cur)
    ELSE IF Peek(toks, cur + 1).type \in {"TABLES", "PLUGINS"}
    THEN Parsed([type |-> "SHOW", target |-> Peek(toks, cur + 1).type], cur + 2)
    ELSE IF Peek(toks, cur + 1).upper = "SOURCES"
    THEN Parsed([type |-> "SHOW", target |-> "SOURCES"],
                IF Peek(toks, cur + 1).type = "EOF" THEN cur + 1 ELSE cur + 2)
    ELSE Rejected("Expected TABLES, PLUGINS, or SOURCES after SHOW", cur + 1)

\* Parser.advance: the token passed and Parser.current after it.  At the end
\* of the input current stays and the token is the one before it.
Advanced(toks, cur) ==
    IF Peek(toks, cur).type = "EOF"
    THEN [token |-> IF cur = 0 THEN Peek(toks, cur) ELSE toks[cur], current |-> cur]
    ELSE [token |-> Peek(toks, cur), current |-> cur + 1]

\* parseValue: the value of a token, or nothing where parseValue throws.  A
\* number is written with the digits parseInt reads.
ParseValue(token) ==
    IF token.type \in {"STRING", "NUMBER", "IDENTIFIER"}
    THEN <<[kind |-> token.type, value |-> token.value]>>
    ELSE <<>>

\* What parseWhere gives: the WhereClause or the error thrown, and
\* Parser.current.
Clause(conditions, operator, cur) ==
    [thrown |-> <<>>, where |-> <<[conditions |-> conditions, operator |-> operator]>>,
     current |-> cur]

ClauseRejected(message, cur) ==
    [thrown |-> <<ParseError(message)>>, where |-> <<>>, current |-> cur]

WhereCondition(field, operator, value, secondValue) ==
    [field |-> field, operator |-> operator, value |-> value, secondValue |-> secondValue]

\* The loop over the values of IN: do { values.push(parseValue(advance())) }
\* while (match(COMMA)).
RECURSIVE ParseInValues(_, _, _)
ParseInValues(toks, cur, values) ==
    LET passed == Advanced(toks, cur)
        value == ParseValue(passed.token)
    IN  IF value = <<>>
        THEN [thrown |-> TRUE, values |-> values, current |-> passed.current]
        ELSE IF Check(toks, passed.current, ",")
        THEN ParseInValues(toks, passed.current + 1, values \o value)
        ELSE [thrown |-> FALSE, values |-> values \o value, current |-> passed.current]

\* parseWhere, from one pass of its do { ... } while (true) on: cur is at the
\* field of a condition.  After a BETWEEN or an IN condition the pass ends in
\* `continue`, which starts the next pass at once; after a comparison the loop
\* goes on only past an AND or an OR and ends otherwise.  The texts have no
\* qualified field and no aggregate, and = is their comparison operator.
RECURSIVE ParseWhere(_, _, _, _)
ParseWhere(toks, cur, conditions, operator) ==
    IF Peek(toks, cur).type # "IDENTIFIER" THEN ClauseRejected("Expected field name", cur)
    ELSE IF Peek(toks, cur + 1).type = "BETWEEN"
    THEN LET first == Advanced(toks, cur + 2)
             second == Advanced(toks, first.current + 1)
         IN  IF ~Check(toks, first.current, "AND")
             THEN ClauseRejected("Expected AND in BETWEEN clause", first.current)
             ELSE IF ParseValue(first.token) = <<>> \/ ParseValue(second.token) = <<>>
             THEN ClauseRejected("Unexpected value token", second.current)
             ELSE ParseWhere(toks, second.current,
                             Append(conditions,
                                    WhereCondition(Peek(toks, cur).value, "BETWEEN",
                                              ParseValue(first.token),
                                              ParseValue(second.token))),
                             operator)
    ELSE IF Peek(toks, cur + 1).type = "IN"
    THEN IF ~Check(toks, cur + 2, "(") THEN ClauseRejected("Expected ( after IN", cur + 2)
         ELSE LET listed == ParseInValues(toks, cur + 3, <<>>)
              IN  IF listed.thrown THEN ClauseRejected("Unexpected value token", listed.current)
                  ELSE IF ~Check(toks, listed.current, ")")
                  THEN ClauseRejected("Expected ) after IN values", listed.current)
                  ELSE ParseWhere(toks, listed.current + 1,
                                  Append(conditions,
                                         WhereCondition(Peek(toks, cur).value, "IN",
                                                   listed.values, <<>>)),
                                  operator)
    ELSE IF ~Check(toks, cur + 1, "=")
    THEN ClauseRejected("Expected comparison operator", cur + 1)
    ELSE LET passed == Advanced(toks, cur + 2)
             all == Append(conditions,
                           WhereCondition(Peek(toks, cur).value, "=",
                                     ParseValue(passed.token), <<>>))
         IN  IF ParseValue(passed.token) = <<>>
             THEN ClauseRejected("Unexpected value token", passed.current)
             ELSE IF Check(toks, passed.current, "AND")
             THEN ParseWhere(toks, passed.current + 1, all, "AND")
             ELSE IF Check(toks, passed.current, "OR")
             THEN ParseWhere(toks, passed.current + 1, all, "OR")
             ELSE Clause(all, operator, passed.current)

\* parseSelect from LIMIT on.  The texts have no OFFSET.
ParseLimit(toks, cur, from, where) ==
    IF ~Check(toks, cur, "LIMIT")
    THEN Parsed([type |-> "SELECT", from |-> from, where |-> where, limit |-> <<>>], cur)
    ELSE IF ~Check(toks, cur + 1, "NUMBER")
    THEN Rejected("Expected number after LIMIT", cur + 1)
    ELSE Parsed([type |-> "SELECT", from |-> from, where |-> where,
                 limit |-> <<Peek(toks, cur + 1).value>>], cur + 2)

\* parseSelect from WHERE on, with what parseWhere gave.  The texts have no
\* GROUP BY, HAVING or ORDER BY.
ParseAfterWhere(toks, from, clause) ==
    IF clause.thrown # <<>>
    THEN [thrown |-> clause.thrown, query |-> <<>>, current |-> clause.current]
    ELSE ParseLimit(toks, clause.current, from, clause.where)

\* parseSelect, for SELECT * FROM table and what follows.  The texts have no
\* column list and no join.
ParseSelect(toks, cur) ==
    IF ~Check(toks, cur, "SELECT") THEN Rejected("Expected SELECT", cur)
    ELSE IF ~Check(toks, cur + 1, "*") THEN Rejected("Expected column name", cur + 1)
    ELSE IF ~Check(toks, cur + 2, "FROM") THEN Rejected("Expected FROM", cur + 2)
    ELSE IF ~Check(toks, cur + 3, "IDENTIFIER") THEN Rejected("Expected table name", cur + 3)
    ELSE IF Check(toks, cur + 4, "WHERE")
    THEN ParseAfterWhere(toks, Peek(toks, cur + 3).value,
                         ParseWhere(toks, cur + 5, <<>>, "AND"))
    ELSE ParseLimit(toks, cur + 4, Peek(toks, cur + 3).value, <<>>)

\* Parser.parse, for the statements of the texts (none starts with TRACE or is
\* a cache command).
Parse(toks, cur) ==
    CASE Peek(toks, cur).type = "DESCRIBE" -> ParseDescribe(toks, cur)
      [] Peek(toks, cur).type = "SELECT" -> ParseSelect(toks, cur)
      [] Peek(toks, cur).type = "SHOW" -> ParseShow(toks, cur)
      [] OTHER -> Rejected("Unexpected token", cur)

\* The lexer has not reached the end of the input and has not thrown.
Lexing ==
    /\ thrown = <<>>
    /\ parsed = <<>>
    /\ IF tokens = <<>> THEN TRUE ELSE tokens[Len(tokens)].type # "EOF"

\* new Parser(input), one pass of tokenize's loop at a time: white space is
\* skipped, then the next token is read, or the lexer throws, or the input is
\* at its end and the EOF token is pushed.
Tokenize(scanned) ==
    /\ Lexing
    /\ IF scanned.next >= Len(input)
       THEN /\ tokens' = Append(tokens, EndOfInput(scanned.next))
            /\ position' = scanned.next
            /\ thrown' = <<>>
       ELSE /\ tokens' = tokens \o scanned.read.token
            /\ position' = scanned.read.next
            /\ thrown' = scanned.read.thrown
    /\ UNCHANGED <<input, current, parsed>>
    /\ UNCHANGED cacheVars
    /\ UNCHANGED registryVars
    /\ UNCHANGED retryVars

\* tokenize's pass from the lexer's position.
Scanned ==
    LET at == SkipWhitespace(input, position)
    IN  [next |-> at,
         read |-> IF at < Len(input) THEN NextToken(input, at)
                  ELSE [thrown |-> <<>>, token |-> <<>>, next |-> at]]

\* new Parser(input) has returned and parse has not been called.
Parsing ==
    /\ thrown = <<>>
    /\ parsed = <<>>
    /\ IF tokens = <<>> THEN FALSE ELSE tokens[Len(tokens)].type = "EOF"

\* parse() on the parser that new Parser(input) built.
ParseQuery(result) ==
    /\ Parsing
    /\ parsed' = result.query
    /\ thrown' = result.thrown
    /\ current' = result.current
    /\ UNCHANGED <<input, position, tokens>>
    /\ UNCHANGED cacheVars
    /\ UNCHANGED registryVars
    /\ UNCHANGED retryVars

InitParser ==
    /\ cache = <<>>
    /\ hits = 0
    /\ misses = 0
    /\ enabled = TRUE
    /\ maxSize = DefaultMaxSize
    /\ defaultTTL = DefaultTTL
    /\ tableTTLs = DefaultTableTTLs
    /\ now = 0
    /\ data = MockData
    /\ workload = {}
    /\ inflight = NoInflight
    /\ ret = <<>>
    /\ lastGet = <<>>
    /\ setLog = <<>>
    /\ disturbed = FALSE
    /\ NewRegistry
    /\ NoRetry
    /\ \E text \in Texts : input = Characters(text)
    /\ position = 0
    /\ tokens = <<>>
    /\ current = 0
    /\ parsed = <<>>
    /\ thrown = <<>>

NextParser ==
    \/ Lexing /\ \E scanned \in {Scanned} : Tokenize(scanned)
    \/ Parsing /\ \E result \in {Parse(tokens, current)} : ParseQuery(result)

SpecParser == InitParser /\ [][NextParser]_vars

----------------------------------------------------------------------------
\* SELECT statements with a WHERE clause: SELECT * FROM services WHERE, then
\* up to MaxConditions conditions joined by AND or OR, then nothing or LIMIT 1.
\* A condition is a comparison, a BETWEEN, an IN of one or two values, or a
\* BETWEEN that lacks its AND.

MaxConditions == 2

ConditionWords ==
    {<<"id", "=", "1">>,
     <<"id", "between", "1", "and", "2">>,
     <<"id", "in", "(", "1", ")">>,
     <<"id", "in", "(", "1", ",", "2", ")">>,
     <<"id", "between", "1">>}

RECURSIVE WhereWords(_)
WhereWords(n) ==
    IF n = 1 THEN ConditionWords
    ELSE ConditionWords \cup
         {condition \o <<joint>> \o rest :
             condition \in ConditionWords, joint \in {"and", "or"}, rest \in WhereWords(n - 1)}

WhereTexts ==
    {<<"select", "*", "from", "services", "where">> \o conditions \o tail :
        conditions \in WhereWords(MaxConditions), tail \in {<<>>, <<"limit", "1">>}}

InitWhere ==
    /\ cache = <<>>
    /\ hits = 0
    /\ misses = 0
    /\ enabled = TRUE
    /\ maxSize = DefaultMaxSize
    /\ defaultTTL = DefaultTTL
    /\ tableTTLs = DefaultTableTTLs
    /\ now = 0
    /\ data = MockData
    /\ workload = {}
    /\ inflight = NoInflight
    /\ ret = <<>>
    /\ lastGet = <<>>
    /\ setLog = <<>>
    /\ disturbed = FALSE
    /\ NewRegistry
    /\ NoRetry
    /\ \E text \in WhereTexts : input = Characters(text)
    /\ position = 0
    /\ tokens = <<>>
    /\ current = 0
    /\ parsed = <<>>
    /\ thrown = <<>>

SpecWhere == InitWhere /\ [][NextParser]_vars

-----------------------------------------------------------------------------
(* utils/retry: withRetry, withTimeout, withRetryAndTimeout *)

MaxAttempts == 3

\* The characters of the strings the errors and the configurations hold.
Chars(text) ==
    CASE text = "ETIMEDOUT" ->
            <<"E", "T", "I", "M", "E", "D", "O", "U", "T">>
      [] text = "ECONNRESET" ->
            <<"E", "C", "O", "N", "N", "R", "E", "S", "E", "T">>
      [] text = "ENOTFOUND" ->
            <<"E", "N", "O", "T", "F", "O", "U", "N", "D">>
      [] text = "ECONNREFUSED" ->
            <<"E", "C", "O", "N", "N", "R", "E", "F", "U", "S", "E", "D">>
      [] text = "ThrottlingException" ->
            <<"T", "h", "r", "o", "t", "t", "l", "i", "n", "g", "E", "x", "c", "e", "p", "t", "i", "o", "n">>
      [] text = "RequestTimeout" ->
            <<"R", "e", "q", "u", "e", "s", "t", "T", "i", "m", "e", "o", "u", "t">>
      [] text = "TooManyRequestsException" ->
            <<"T", "o", "o", "M", "a", "n", "y", "R", "e", "q", "u", "e", "s", "t", "s", "E", "x", "c", "e", "p", "t", "i", "o", "n">>
      [] text = "ServiceUnavailable" ->
            <<"S", "e", "r", "v", "i", "c", "e", "U", "n", "a", "v", "a", "i", "l", "a", "b", "l", "e">>
      [] text = "connect ETIMEDOUT" ->
            <<"c", "o", "n", "n", "e", "c", "t", " ", "E", "T", "I", "M", "E", "D", "O", "U", "T">>
      [] text = "Rate exceeded" ->
            <<"R", "a", "t", "e", " ", "e", "x", "c", "e", "e", "d", "e", "d">>
      [] text = "503 ServiceUnavailable" ->
            <<"5", "0", "3", " ", "S", "e", "r", "v", "i", "c", "e", "U", "n", "a", "v", "a", "i", "l", "a", "b", "l", "e">>
      [] text = "Forbidden" ->
            <<"F", "o", "r", "b", "i", "d", "d", "e", "n">>
      [] text = "Operation timed out after 5000ms" ->
            <<"O", "p", "e", "r", "a", "t", "i", "o", "n", " ", "t", "i", "m", "e", "d", " ", "o", "u", "t", " ", "a", "f", "t", "e", "r", " ", "5", "0", "0", "0", "m", "s">>
      [] text = "probe: RequestTimeout" ->
            <<"p", "r", "o", "b", "e", ":", " ", "R", "e", "q", "u", "e", "s", "t", "T", "i", "m", "e", "o", "u", "t">>
      [] text = "Error" ->
            <<"E", "r", "r", "o", "r">>
      [] text = "EACCES" ->
            <<"E", "A", "C", "C", "E", "S">>
      [] OTHER -> <<>>

\* String.prototype.includes
Includes(text, part) ==
    \E at \in 0..(Len(Chars(text)) - Len(Chars(part))) :
        SubSeq(Chars(text), at + 1, at + Len(Chars(part))) = Chars(part)

\* isRetryableError.  An error without a code has code "".
IsRetryableError(error, config) ==
    /\ config.retryableErrors # <<>>
    /\ \E k \in 1..Len(config.retryableErrors) :
          \/ Includes(error.message, config.retryableErrors[k])
          \/ Includes(error.name, config.retryableErrors[k])
          \/ error.code = config.retryableErrors[k]

\* The errors fn rejects with: a connection that timed out (code and message
\* ETIMEDOUT), a throttled request (name ThrottlingException), a service that
\* is unavailable (message only) and a refusal (no transient signal).
FnErrors ==
    {[message |-> "connect ETIMEDOUT", name |-> "Error", code |-> "ETIMEDOUT"],
     [message |-> "Rate exceeded", name |-> "ThrottlingException", code |-> ""],
     [message |-> "503 ServiceUnavailable", name |-> "Error", code |-> ""],
     [message |-> "Forbidden", name |-> "Error", code |-> "EACCES"]}

\* The config arguments of the callers: nothing, maxAttempts, and no
\* retryable errors.
RetryConfigs ==
    {DefaultRetryConfig}
    \cup {[DefaultRetryConfig EXCEPT !.maxAttempts = n] : n \in 0..MaxAttempts}
    \cup {[DefaultRetryConfig EXCEPT !.retryableErrors = <<>>]}

\* The timeoutConfig arguments: none, timeoutMs alone, and a timeoutMessage.
TimeoutConfigs ==
    {<<>>,
     <<[timeoutMs |-> 5000, timeoutMessage |-> ""]>>,
     <<[timeoutMs |-> 5000, timeoutMessage |-> "probe: RequestTimeout"]>>}

\* withTimeout's rejection: new Error(config.timeoutMessage || `Operation timed
\* out after ${config.timeoutMs}ms`).
TimeoutError(config) ==
    [message |-> IF config.timeoutMessage # "" THEN config.timeoutMessage
                 ELSE "Operation timed out after 5000ms",
     name |-> "Error", code |-> ""]

Resolved(value) == <<[threw |-> FALSE, value |-> <<value>>, error |-> <<>>]>>

Rethrown(error) == <<[threw |-> TRUE, value |-> <<>>, error |-> error]>>

\* The catch block that retries whatever the error is.
CaughtAlways(error) ==
    /\ lastError' = <<error>>
    /\ failures' = Append(failures, error)
    /\ IF attempt = retryConfig.maxAttempts - 1
       THEN stage' = "thrown" /\ settlement' = Rethrown(<<error>>)
       ELSE stage' = "sleeping" /\ UNCHANGED settlement
    /\ UNCHANGED <<retryConfig, timeoutConfig, attempt, fnCalls>>

\* withRetry's catch block: the last attempt and an error that is not
\* retryable are thrown, any other sleeps before the next pass.
Caught(error) ==
    /\ lastError' = <<error>>
    /\ failures' = Append(failures, error)
    /\ IF attempt = retryConfig.maxAttempts - 1 \/ ~IsRetryableError(error, retryConfig)
       THEN stage' = "thrown" /\ settlement' = Rethrown(<<error>>)
       ELSE stage' = "sleeping" /\ UNCHANGED settlement
    /\ UNCHANGED <<retryConfig, timeoutConfig, attempt, fnCalls>>

\* The head of withRetry's for loop: fn is invoked (through withTimeout where
\* there is a timeoutConfig), or the loop is over and lastError is thrown.
Iterate ==
    /\ stage = "loop"
    /\ IF attempt < retryConfig.maxAttempts
       THEN /\ fnCalls' = fnCalls + 1
            /\ stage' = "awaiting"
            /\ UNCHANGED settlement
       ELSE /\ stage' = "thrown"
            /\ settlement' = Rethrown(lastError)
            /\ UNCHANGED fnCalls
    /\ UNCHANGED <<retryConfig, timeoutConfig, attempt, lastError, failures>>
    /\ UNCHANGED cacheVars
    /\ UNCHANGED registryVars
    /\ UNCHANGED parserVars

\* fn's promise resolves: return await fn().
FnResolves(value) ==
    /\ stage = "awaiting"
    /\ stage' = "returned"
    /\ settlement' = Resolved(value)
    /\ UNCHANGED <<retryConfig, timeoutConfig, attempt, lastError, fnCalls, failures>>
    /\ UNCHANGED cacheVars
    /\ UNCHANGED registryVars
    /\ UNCHANGED parserVars

\* fn's promise rejects.
FnRejects(error) ==
    /\ stage = "awaiting"
    /\ Caught(error)
    /\ UNCHANGED cacheVars
    /\ UNCHANGED registryVars
    /\ UNCHANGED parserVars

\* withTimeout's timer fires before fn's promise settles: Promise.race rejects
\* with the timeout error.
TimeoutFires ==
    /\ stage = "awaiting"
    /\ timeoutConfig # <<>>
    /\ Caught(TimeoutError(timeoutConfig[1]))
    /\ UNCHANGED cacheVars
    /\ UNCHANGED registryVars
    /\ UNCHANGED parserVars

\* sleep(delay) is over: attempt++.
Wake ==
    /\ stage = "sleeping"
    /\ attempt' = attempt + 1
    /\ stage' = "loop"
    /\ UNCHANGED <<retryConfig, timeoutConfig, lastError, fnCalls, failures, settlement>>
    /\ UNCHANGED cacheVars
    /\ UNCHANGED registryVars
    /\ UNCHANGED parserVars

\* withRetryAndTimeout(fn, config, timeoutConfig) has been called.
InitRetry ==
    /\ cache = <<>>
    /\ hits = 0
    /\ misses = 0
    /\ enabled = TRUE
    /\ maxSize = DefaultMaxSize
    /\ defaultTTL = DefaultTTL
    /\ tableTTLs = DefaultTableTTLs
    /\ now = 0
    /\ data = MockData
    /\ workload = {}
    /\ inflight = NoInflight
    /\ ret = <<>>
    /\ lastGet = <<>>
    /\ setLog = <<>>
    /\ disturbed = FALSE
    /\ NewRegistry
    /\ NoParser
    /\ retryConfig \in RetryConfigs
    /\ timeoutConfig \in TimeoutConfigs
    /\ attempt = 0
    /\ lastError = <<>>
    /\ stage = "loop"
    /\ fnCalls = 0
    /\ failures = <<>>
    /\ settlement = <<>>

NextRetry ==
    \/ Iterate
    \/ FnResolves(1)
    \/ \E error \in FnErrors : FnRejects(error)
    \/ TimeoutFires
    \/ Wake

SpecRetry == InitRetry /\ [][NextRetry]_vars

-----------------------------------------------------------------------------
(* Properties of executeSelect, stated over the value it last returned *)

Returned == ret # <<>>
Answer == ret[1].result
Asked == ret[1].statement

SameAnswer(a, b) == a.rows = b.rows /\ a.columns = b.columns

\* C1: cache transparency.  A SELECT answered from the cache has the rows and
\* columns a fresh execution of that same statement returns: statements of one
\* fingerprint have one fresh answer.
CacheTransparency ==
    (Returned /\ ret[1].fromCache) => SameAnswer(Answer, FreshResult(data, Asked))

\* The full WHERE predicate: every condition with its secondValue, combined by
\* the clause's AND/OR.
FullPredicate(row, where) ==
    IF where.operator = "OR" /\ Len(where.conditions) > 0
    THEN \E i \in 1..Len(where.conditions) : FilterMatches(row, where.conditions[i])
    ELSE \A i \in 1..Len(where.conditions) : FilterMatches(row, where.conditions[i])

\* The reference executor: no filter is passed to the plugin, the full
\* predicate is applied to the fetched rows, and sorting, pagination, projection
\* and truncation follow as in executeSelect.
ReferenceResult(d, statement) ==
    LET Keep(row) == FullPredicate(row, statement.where)
        kept == [d EXCEPT ![statement.from] = SelectSeq(d[statement.from], Keep)]
        fetched == PluginQuery(kept, statement.from, <<>>, QueryOptions(statement))
    IN  Truncated(statement, Projected(statement, fetched))

\* C2: filter pushdown neutrality.  The rows and columns a cacheable SELECT
\* returns are those of the reference executor that applies the full WHERE
\* predicate itself after an unfiltered fetch.
PushdownNeutrality ==
    (Returned /\ ~ret[1].fromCache /\ IsCacheable(Asked))
        => SameAnswer(Answer, ReferenceResult(data, Asked))

\* C3: a cacheable SELECT that misses and completes while the cache is enabled
\* stores its result under the fingerprint it probed.
StoredUnderProbedFingerprint ==
    (Returned /\ ~ret[1].fromCache /\ ret[1].probed # <<>> /\ ret[1].stored # <<>>)
        => ret[1].stored = ret[1].probed

\* C6: a disabled cache holds no entry.
DisabledCacheIsEmpty == ~enabled => cache = <<>>

\* C6 is exercised: a cacheable SELECT probed the cache while it was enabled and
\* completed after the cache was disabled, storing nothing.
DisabledWhileInFlight ==
    /\ ~enabled
    /\ Returned
    /\ ~ret[1].fromCache
    /\ ret[1].probed # <<>>
    /\ ret[1].stored = <<>>

\* C7: truncation.  With no LIMIT and more than DEFAULT_MAX_RESULTS rows before
\* truncation, the result has rowCount DEFAULT_MAX_RESULTS, that many rows,
\* truncated set, a warning, and totalCount the size before truncation.
TruncationContract ==
    (Returned /\ ~ret[1].fromCache /\ Asked.limit = Undefined
        /\ ret[1].shapedCount > DEFAULT_MAX_RESULTS)
        => /\ Answer.rowCount = DEFAULT_MAX_RESULTS
           /\ Len(Answer.rows) = DEFAULT_MAX_RESULTS
           /\ Answer.truncated
           /\ Answer.warning
           /\ Answer.totalCount = ret[1].shapedCount

\* C8: every result of a SELECT has rowCount equal to its number of rows.
RowCountIsLength == Returned => Answer.rowCount = Len(Answer.rows)

\* C9: a SELECT with LIMIT n returns at most n rows.
LimitBoundsRows ==
    (Returned /\ Asked.limit # Undefined) => Len(Answer.rows) <= Asked.limit

\* Row a comes strictly before row b under the ORDER BY list: the first key on
\* which they differ puts a first.
Precedes(a, b, orderBy) ==
    \E k \in 1..Len(orderBy) :
        /\ Compare(a, b, orderBy[k]) < 0
        /\ \A m \in 1..(k - 1) : Compare(a, b, orderBy[m]) = 0

\* C10: the rows of a SELECT with ORDER BY are sorted by the listed keys, the
\* first key being the primary one: no row comes after a row it precedes.
OrderByIsHonoured ==
    (Returned /\ Asked.orderBy # <<>>)
        => \A i \in 1..Len(Answer.rows), j \in 1..Len(Answer.rows) :
                i < j => ~Precedes(Answer.rows[j], Answer.rows[i], Asked.orderBy)

-----------------------------------------------------------------------------
(* Properties of the cache, stated over its calls *)

Holds(key) == IndexOf(cache, key) # 0

\* maxSize + 1 sets of pairwise distinct fingerprints went into the empty,
\* enabled cache, with no expiry, clear, clearTable or disable since.
FilledPastMaxSize ==
    /\ enabled
    /\ ~disturbed
    /\ maxSize >= 1
    /\ Len(setLog) = maxSize + 1

\* C4: eviction.  After maxSize + 1 sets of pairwise distinct fingerprints the
\* entry inserted first is absent and the maxSize entries inserted after it are
\* present.
EvictionDropsFirstInserted ==
    FilledPastMaxSize
        => /\ ~Holds(setLog[1])
           /\ \A i \in 2..Len(setLog) : Holds(setLog[i])

\* C4 is exercised: the cache was filled past a maxSize of two or more by
\* sets made at one and the same time.
EvictedAtEqualTimestamps ==
    /\ FilledPastMaxSize
    /\ maxSize >= 2
    /\ \A i \in 1..Len(cache) : cache[i].timestamp = now

GetFound == lastGet # <<>> /\ lastGet[1].wasEnabled /\ lastGet[1].found # <<>>
GetAge == lastGet[1].at - lastGet[1].found[1].timestamp

\* C5: TTL expiry.  A get of a stored fingerprint more than ttl after the entry
\* was stored returns a miss and removes the entry; a get within ttl returns
\* the stored result.
ExpiryOnGet ==
    GetFound
        => IF GetAge > lastGet[1].found[1].ttl
           THEN lastGet[1].returned = <<>> /\ ~Holds(lastGet[1].key)
           ELSE lastGet[1].returned = <<lastGet[1].found[1].result>>
                    /\ Holds(lastGet[1].key)

\* C5 is exercised: a get found an entry older than its TTL.
GotExpiredEntry ==
    /\ GetFound
    /\ GetAge > lastGet[1].found[1].ttl
    /\ lastGet[1].returned = <<>>
-----------------------------------------------------------------------------
(* Properties of the PluginManager *)

\* A serving method is called only on an object whose initialize has resolved.
ServedOnlyWhenReady == invoked # <<>> => invoked[1].ready

\* A serving method is never called on an object whose cleanup has been called.
NeverServedAfterCleanup == invoked # <<>> => ~invoked[1].cleaned

\* C11: a plugin object's query, trace or getTables is called only after that
\* object's initialize has resolved, and never after that object's cleanup
\* has been called.
LifecycleOrdering == ServedOnlyWhenReady /\ NeverServedAfterCleanup

\* registerPlugin is called with the plugin object in this step.
Registering(object) == objects[object].status = "new" /\ objects'[object].status # "new"

\* The name of the plugin object is a key of the plugins map.
NamePresent(object) == \E i \in 1..Len(plugins) : plugins[i].name = Plugin(object).name

\* C12: registerPlugin with a name already in the registry throws a PluginError
\* (code PLUGIN_ERROR) and changes neither plugins nor initialized, and
\* initialize of the rejected plugin object is not called, then or later.
DuplicateRejected ==
    [][\A object \in PluginObjects :
        /\ Registering(object) /\ NamePresent(object) =>
              /\ outcome' # <<>>
              /\ outcome'[1].op = "registerPlugin"
              /\ outcome'[1].object = object
              /\ outcome'[1].error = "PLUGIN_ERROR"
              /\ plugins' = plugins
              /\ initialized' = initialized
              /\ objects'[object].status = "rejected"
        /\ objects[object].status = "rejected" => objects'[object].status = "rejected"]_vars

\* A second MockPlugin object was rejected while the first is registered and
\* initialised.
DuplicateWasRejected ==
    /\ objects[2].status = "rejected"
    /\ outcome # <<>>
    /\ outcome[1].op = "registerPlugin"
    /\ outcome[1].object = 2
    /\ plugins = <<[name |-> "mock", object |-> 1, stamp |-> 1]>>
    /\ "mock" \in initialized

\* C13: when plugin.initialize rejects, registerPlugin throws a PluginError
\* that carries the rejection, and the name of the plugin is then a key of
\* neither plugins nor initialized.
FailedInitializeUndone ==
    \A object \in PluginObjects :
        /\ outcome # <<>>
        /\ outcome[1].op = "registerPlugin"
        /\ outcome[1].object = object
        /\ objects[object].status = "failed"
        => /\ outcome[1].error = "PLUGIN_ERROR"
           /\ outcome[1].cause
           /\ ~NamePresent(object)
           /\ Plugin(object).name \notin initialized

\* The result of a getAllTables call is in outcome.
Listing == outcome # <<>> /\ outcome[1].op \in {"tables", "show", "select", "describe"}

\* No call has changed the registry or a plugin object since the call whose
\* result is in outcome began: plugin objects never go back to an earlier
\* status, and the map gets an entry back only with a new object.
RegistryKept ==
    /\ outcome[1].from[1] = plugins
    /\ outcome[1].from[2] = initialized
    /\ outcome[1].from[4] = objects

\* The tables, each with its source, of the initialised plugins among entries
\* whose getTables did not reject.
RECURSIVE TablesOfOthers(_, _)
TablesOfOthers(entries, raised) ==
    IF entries = <<>> THEN <<>>
    ELSE (IF Head(entries).name \in initialized /\ Head(entries).object \notin raised
          THEN WithSource(Plugin(Head(entries).object).tables, Head(entries).name)
          ELSE <<>>) \o TablesOfOthers(Tail(entries), raised)

\* C14: over a set of initialised plugins, getAllTables does not fail when
\* getTables of some of them rejects, and returns exactly the tables of the
\* others, each with its source.
PartialFailureTolerance ==
    Listing /\ RegistryKept =>
        /\ outcome[1].op \in {"tables", "show"} => outcome[1].error = ""
        /\ outcome[1].items = TablesOfOthers(plugins, outcome[1].raised)

\* getAllTables returned the tables of one plugin after getTables of the
\* other rejected.
ListedDespiteRejection ==
    /\ Listing
    /\ RegistryKept
    /\ outcome[1].op = "tables"
    /\ outcome[1].raised = {3}
    /\ outcome[1].items = WithSource(Plugin(1).tables, "mock")

\* The hops of the sources that are registered, initialised, implement trace
\* and did not reject.
RECURSIVE HopsOfOthers(_, _)
HopsOfOthers(sources, raised) ==
    IF sources = <<>> THEN <<>>
    ELSE (IF /\ GetPlugin(Head(sources)).error = ""
             /\ Plugin(GetPlugin(Head(sources)).object).hasTrace
             /\ GetPlugin(Head(sources)).object \notin raised
          THEN Plugin(GetPlugin(Head(sources)).object).hops
          ELSE <<>>) \o HopsOfOthers(Tail(sources), raised)

\* C15: trace succeeds whatever its sources are (rejecting in trace, not
\* registered, not initialised, without a trace method) and returns the hops
\* of the other sources.
TraceOmitsFailingSources ==
    outcome # <<>> /\ outcome[1].op = "trace" /\ RegistryKept =>
        /\ outcome[1].error = ""
        /\ outcome[1].hops = SortHops(HopsOfOthers(outcome[1].sources, outcome[1].raised))

\* Two items of the listing in outcome name the target with different sources.
Ambiguous ==
    \E i, j \in 1..Len(outcome[1].items) :
        /\ outcome[1].items[i].name = outcome[1].target
        /\ outcome[1].items[j].name = outcome[1].target
        /\ outcome[1].items[i].source # outcome[1].items[j].source

\* C16: a SELECT or DESCRIBE of a table name that two initialised plugins
\* both list fails with an ExecutionError (code EXECUTION_ERROR).
AmbiguousTableRejected ==
    /\ Listing
    /\ outcome[1].op \in {"select", "describe"}
    /\ RegistryKept
    /\ Ambiguous
    => outcome[1].error = "EXECUTION_ERROR"

\* The place of a source or table name in the order of strings.
NameRank(name) ==
    CASE name = "catalog" -> 1
      [] name = "deployments" -> 2
      [] name = "hosts" -> 3
      [] name = "mock" -> 4
      [] name = "services" -> 5

\* C17: the listing getAllTables returns, and SHOW TABLES with it, is sorted
\* by source and then by table name.
ListingSorted ==
    Listing /\ outcome[1].op \in {"tables", "show"} =>
        \A i, j \in 1..Len(outcome[1].items) :
            i < j =>
                \/ NameRank(outcome[1].items[i].source) < NameRank(outcome[1].items[j].source)
                \/ /\ outcome[1].items[i].source = outcome[1].items[j].source
                   /\ NameRank(outcome[1].items[i].name) <= NameRank(outcome[1].items[j].name)

-----------------------------------------------------------------------------
(* Properties of the cache's TTLs and keys *)

\* The entries this step stored: set writes hits 0 and the current time; get
\* leaves an entry with hits above 0.
StoredNow(i) ==
    /\ cache'[i].hits = 0
    /\ cache'[i].timestamp = now
    /\ \A j \in 1..Len(cache) : cache[j] # cache'[i]

\* C18: once setTableTTL(table, ms) has been called, every entry stored for
\* the table carries the TTL ms.  The callers pass values of ms other than
\* the built-in TTL of the table, so a TTL of the table other than the
\* built-in one is one that setTableTTL has set.
SetTableTTLApplies ==
    [][\A i \in 1..Len(cache') :
        /\ StoredNow(i)
        /\ tableTTLs[cache'[i].key.table] # DefaultTableTTLs[cache'[i].key.table]
        => cache'[i].ttl = tableTTLs[cache'[i].key.table]]_vars

\* A key with the names of its options as a set: what the key keeps of the
\* options besides the order their fields were inserted in.
Canonical(key) ==
    [table |-> key.table, columnsStr |-> key.columnsStr, filterStr |-> key.filterStr,
     names |-> {key.optionsStr.keys[i] : i \in 1..Len(key.optionsStr.keys)},
     limit |-> key.optionsStr.limit, offset |-> key.optionsStr.offset,
     orderBy |-> key.optionsStr.orderBy, columns |-> key.optionsStr.columns]

\* C19: get hits an unexpired entry that set stored with the same table,
\* filters and options, whatever the order of the fields of the options.
KeyOrderInsensitive ==
    [][/\ lastGet' # <<>>
       /\ lastGet'[1].wasEnabled
       /\ \E i \in 1..Len(cache) :
            /\ Canonical(cache[i].key) = Canonical(lastGet'[1].key)
            /\ ~IsExpired(cache[i])
       => lastGet'[1].returned # <<>>]_vars

-----------------------------------------------------------------------------
(* Properties of the parser *)

\* C20: whatever new Parser(text).parse() throws, from the lexer or from the
\* parser, is a ParseError with code PARSE_ERROR.
RejectionsAreParseErrors ==
    thrown # <<>> => thrown[1].name = "ParseError" /\ thrown[1].code = "PARSE_ERROR"

\* The type of the i-th token, for i past the tokens too.
TypeAt(toks, i) == IF i <= Len(toks) THEN toks[i].type ELSE "NONE"

\* The values of an IN list read from the i-th token on: NUMBER tokens
\* separated by commas up to the closing parenthesis.
RECURSIVE ListedFrom(_, _)
ListedFrom(toks, i) ==
    IF TypeAt(toks, i) # "NUMBER" THEN [ok |-> FALSE, values |-> <<>>, next |-> i]
    ELSE IF TypeAt(toks, i + 1) = ")"
    THEN [ok |-> TRUE, values |-> ParseValue(toks[i]), next |-> i + 2]
    ELSE IF TypeAt(toks, i + 1) = ","
    THEN LET rest == ListedFrom(toks, i + 2)
         IN  [ok |-> rest.ok, values |-> ParseValue(toks[i]) \o rest.values,
              next |-> rest.next]
    ELSE [ok |-> FALSE, values |-> <<>>, next |-> i]

\* The conditions of a predicate written from the i-th token on: comparisons,
\* `field BETWEEN a AND b` and `field IN (v1, ..., vk)`, joined by AND or OR
\* and followed by the end of the input or by LIMIT.
RECURSIVE Written(_, _)
Written(toks, i) ==
    LET one ==
            IF TypeAt(toks, i) # "IDENTIFIER" THEN [ok |-> FALSE, is |-> <<>>, next |-> i]
            ELSE IF TypeAt(toks, i + 1) = "=" /\ TypeAt(toks, i + 2) = "NUMBER"
            THEN [ok |-> TRUE,
                  is |-> <<WhereCondition(toks[i].value, "=", ParseValue(toks[i + 2]), <<>>)>>,
                  next |-> i + 3]
            ELSE IF /\ TypeAt(toks, i + 1) = "BETWEEN" /\ TypeAt(toks, i + 2) = "NUMBER"
                    /\ TypeAt(toks, i + 3) = "AND" /\ TypeAt(toks, i + 4) = "NUMBER"
            THEN [ok |-> TRUE,
                  is |-> <<WhereCondition(toks[i].value, "BETWEEN", ParseValue(toks[i + 2]),
                                          ParseValue(toks[i + 4]))>>,
                  next |-> i + 5]
            ELSE IF TypeAt(toks, i + 1) = "IN" /\ TypeAt(toks, i + 2) = "("
            THEN LET listed == ListedFrom(toks, i + 3)
                 IN  [ok |-> listed.ok,
                      is |-> <<WhereCondition(toks[i].value, "IN", listed.values, <<>>)>>,
                      next |-> listed.next]
            ELSE [ok |-> FALSE, is |-> <<>>, next |-> i]
    IN  IF ~one.ok THEN [ok |-> FALSE, conditions |-> <<>>]
        ELSE IF TypeAt(toks, one.next) \in {"AND", "OR"}
        THEN LET rest == Written(toks, one.next + 1)
             IN  [ok |-> rest.ok, conditions |-> one.is \o rest.conditions]
        ELSE [ok |-> TypeAt(toks, one.next) \in {"EOF", "LIMIT"}, conditions |-> one.is]

\* parse() has returned or thrown.
ParseEnded == tokens # <<>> /\ (parsed # <<>> \/ thrown # <<>>)

\* C21: a WHERE clause of comparisons, BETWEEN conditions and IN conditions
\* joined by AND or OR, the last of them followed by the end of the input or
\* by LIMIT, parses into exactly the conditions written, a BETWEEN with its
\* value and secondValue and an IN with its list of values.
BetweenAndInAccepted ==
    ParseEnded /\ TypeAt(tokens, 5) = "WHERE" /\ Written(tokens, 6).ok
    => /\ thrown = <<>>
       /\ parsed # <<>>
       /\ parsed[1].where # <<>>
       /\ parsed[1].where[1].conditions = Written(tokens, 6).conditions

\* The same for the clauses of comparisons only.
ComparisonsAccepted ==
    /\ ParseEnded /\ TypeAt(tokens, 5) = "WHERE" /\ Written(tokens, 6).ok
    /\ \A k \in 1..Len(Written(tokens, 6).conditions) :
          Written(tokens, 6).conditions[k].operator = "="
    => /\ thrown = <<>>
       /\ parsed # <<>>
       /\ parsed[1].where[1].conditions = Written(tokens, 6).conditions

-----------------------------------------------------------------------------
(* Properties of withRetry *)

\* The attempts that have failed so far were all but the last followed by
\* another invocation of fn.
Retried(k) == k < Len(failures) \/ fnCalls > Len(failures)

\* C22: withRetry invokes fn at most maxAttempts times; an attempt that was
\* followed by another had failed with a retryable error; a failure that is
\* not retryable is thrown at once, and so is the failure of attempt number
\* maxAttempts; what is thrown is the last failure.
RetryBounded ==
    /\ fnCalls <= retryConfig.maxAttempts
    /\ Len(failures) <= fnCalls
    /\ \A k \in 1..Len(failures) :
          /\ Retried(k) => IsRetryableError(failures[k], retryConfig)
          /\ ~IsRetryableError(failures[k], retryConfig) \/ k = retryConfig.maxAttempts
             => /\ k = Len(failures)
                /\ stage = "thrown"
                /\ fnCalls = k
    /\ stage = "thrown" /\ retryConfig.maxAttempts >= 1
       => /\ failures # <<>>
          /\ settlement = Rethrown(<<failures[Len(failures)]>>)

\* Every attempt failed with a retryable error and the last failure was
\* thrown after DefaultMaxAttempts invocations.
RetriesExhausted ==
    /\ stage = "thrown"
    /\ retryConfig = DefaultRetryConfig
    /\ fnCalls = DefaultMaxAttempts
    /\ Len(failures) = DefaultMaxAttempts
    /\ \A k \in 1..Len(failures) : IsRetryableError(failures[k], retryConfig)
    /\ settlement = Rethrown(<<failures[Len(failures)]>>)

\* C27: with the default retry configuration, an attempt that withTimeout
\* fails with its timeout error, and that is not the last attempt, is followed
\* by a sleep and another invocation of fn instead of being thrown.
TimeoutRetried ==
    [][/\ stage = "awaiting"
       /\ timeoutConfig # <<>>
       /\ retryConfig = DefaultRetryConfig
       /\ attempt < retryConfig.maxAttempts - 1
       /\ failures' = Append(failures, TimeoutError(timeoutConfig[1]))
       => stage' = "sleeping"]_vars

\* The same for the timeout errors whose timeoutMessage holds one of the
\* retryable signals.
SignalledTimeoutRetried ==
    [][/\ stage = "awaiting"
       /\ timeoutConfig # <<>>
       /\ retryConfig = DefaultRetryConfig
       /\ attempt < retryConfig.maxAttempts - 1
       /\ failures' = Append(failures, TimeoutError(timeoutConfig[1]))
       /\ timeoutConfig[1].timeoutMessage # ""
       => stage' = "sleeping"]_vars

-----------------------------------------------------------------------------
(* Properties of the cache's size and of set *)

\* C23: the cache never holds more than maxSize entries, whatever maxSize >= 0
\* it was built with.
SizeBounded == Len(cache) <= maxSize

\* The same for the caches built with maxSize >= 1.
SizeBoundedFromOne == maxSize >= 1 => Len(cache) <= maxSize

\* The step is set(table, filters, options, result) by a caller that calls set.
IsSetStep(table, filters, options, result) ==
    /\ "set" \in workload.calls
    /\ enabled
    /\ cache' = CacheSet(cache, table, filters, options, result)
    /\ lastGet' = <<>>
    /\ UNCHANGED <<hits, misses, enabled, maxSize, now>>

\* After the step the entry of the key is the one set stores, and the entries
\* of the other keys are the ones the cache held.
ReplacedAlone(table, filters, options, result) ==
    LET key == GenerateKey(table, filters, options)
    IN  /\ \E j \in 1..Len(cache') :
              cache'[j] = [key |-> key, result |-> result, timestamp |-> now,
                           ttl |-> GetTTL(table), hits |-> 0]
        /\ \A i \in 1..Len(cache) :
              cache[i].key # key => \E j \in 1..Len(cache') : cache'[j] = cache[i]
        /\ Len(cache') = Len(cache)

\* C30: a set on a key the cache holds replaces the entry of that key and
\* leaves every other entry as it was, also in a cache of maxSize entries.
SetReplacesAlone ==
    [][\A table \in workload.tables, filters \in workload.filters,
         options \in workload.options, result \in CallResults :
           /\ IsSetStep(table, filters, options, result)
           /\ IndexOf(cache, GenerateKey(table, filters, options)) # 0
           => ReplacedAlone(table, filters, options, result)]_vars

\* The same for the caches that hold fewer than maxSize entries.
SetReplacesAloneWithRoom ==
    [][\A table \in workload.tables, filters \in workload.filters,
         options \in workload.options, result \in CallResults :
           /\ IsSetStep(table, filters, options, result)
           /\ IndexOf(cache, GenerateKey(table, filters, options)) # 0
           /\ Len(cache) < maxSize
           => ReplacedAlone(table, filters, options, result)]_vars

-----------------------------------------------------------------------------
(* Properties of executeSelect and the cache *)

\* A statement without joins, aggregate columns and HAVING.
PlainSelect(statement) ==
    /\ Len(statement.joins) = 0
    /\ ~HasAggregates(statement)
    /\ Len(statement.having.conditions) = 0

\* C24: with the cache enabled, an executeSelect call that fetched its rows
\* stores its result if and only if the statement has no joins, no aggregate
\* columns and no HAVING, a GROUP BY without aggregates included; a call that
\* does not store has not probed either.
CachedIffPlain ==
    ret # <<>> /\ ~ret[1].fromCache /\ enabled
    => /\ ret[1].stored # <<>> <=> PlainSelect(ret[1].statement)
       /\ ret[1].stored = <<>> => ret[1].probed = <<>>

\* The same for the statements without GROUP BY.
CachedIffPlainUngrouped ==
    ret # <<>> /\ ~ret[1].fromCache /\ enabled /\ Len(ret[1].statement.groupBy) = 0
    => /\ ret[1].stored # <<>> <=> PlainSelect(ret[1].statement)
       /\ ret[1].stored = <<>> => ret[1].probed = <<>>

\* A call for a statement with joins, aggregate columns or HAVING leaves the
\* entries and the counters of the cache as they were.
OthersLeaveCache ==
    [][/\ \/ inflight' # NoInflight /\ inflight = NoInflight
             /\ ~PlainSelect(inflight'[1].statement)
          \/ inflight # NoInflight /\ inflight' = NoInflight
             /\ ~PlainSelect(inflight[1].statement)
       => UNCHANGED <<cache, hits, misses>>]_vars

\* The rows of an aggregating SELECT when every row of the table that
\* satisfies WHERE is aggregated and OFFSET and LIMIT then select among the
\* aggregated rows.
AggregatedThenPaged(statement) ==
    LET fetched == PluginQuery(data, statement.from, Filters(statement),
                               [orderBy |-> statement.orderBy, limit |-> Undefined,
                                offset |-> Undefined])
        aggregated == Aggregated(statement, fetched)
    IN  Truncated(statement,
                  [aggregated EXCEPT
                      !.rows = Paginate(aggregated.rows,
                                        [limit |-> statement.limit,
                                         offset |-> statement.offset])]).rows

\* C25: an aggregating SELECT with LIMIT or OFFSET returns the aggregates of
\* all the rows that satisfy WHERE, paged after the aggregation.
PagedAfterAggregation ==
    /\ ret # <<>>
    /\ ~ret[1].fromCache
    /\ HasAggregates(ret[1].statement)
    /\ ret[1].statement.limit # Undefined \/ ret[1].statement.offset # Undefined
    => ret[1].result.rows = AggregatedThenPaged(ret[1].statement)

\* The same for the aggregating SELECTs without LIMIT and OFFSET.
UnpagedAggregation ==
    /\ ret # <<>>
    /\ ~ret[1].fromCache
    /\ HasAggregates(ret[1].statement)
    /\ ret[1].statement.limit = Undefined /\ ret[1].statement.offset = Undefined
    => ret[1].result.rows = AggregatedThenPaged(ret[1].statement)

-----------------------------------------------------------------------------
(* Properties of the joins *)

\* The names of the columns of a table.
NamesOf(table) == {TableColumns(table)[i].name : i \in 1..Len(TableColumns(table))}

\* The row merges a services row and a deployments row that matched.
MatchedPair(row) ==
    /\ Field(row, "services.id") \notin {Undefined, Null}
    /\ Field(row, "services.id") = Field(row, "deployments.service_id")

\* The unqualified keys of the row hold the values of the left row, and the
\* values of the right row for the columns that only the right row has.
LeftWins(row) ==
    /\ \A name \in NamesOf("services") :
          /\ Qualify("services", name) \in DOMAIN row
          /\ name \in DOMAIN row
          /\ row[name] = row[Qualify("services", name)]
    /\ \A name \in DOMAIN row \cap (NamesOf("deployments") \ NamesOf("services")) :
          /\ Qualify("deployments", name) \in DOMAIN row
          /\ row[name] = row[Qualify("deployments", name)]

\* C26: in the rows a join of services with deployments returns, a matched
\* pair carries every column under its qualified and its unqualified key, and
\* an unqualified key that both rows have holds the value of the left row,
\* whatever that value is.
JoinLeftWins ==
    /\ ret # <<>>
    /\ ~ret[1].fromCache
    /\ Len(ret[1].statement.joins) = 1
    => \A i \in 1..Len(ret[1].result.rows) :
          MatchedPair(ret[1].result.rows[i]) => LeftWins(ret[1].result.rows[i])

\* The same for the matched pairs whose left row has no falsy value in a
\* column that the right row has too.
JoinLeftWinsTruthy ==
    /\ ret # <<>>
    /\ ~ret[1].fromCache
    /\ Len(ret[1].statement.joins) = 1
    => \A i \in 1..Len(ret[1].result.rows) :
          /\ MatchedPair(ret[1].result.rows[i])
          /\ \A name \in NamesOf("services") \cap NamesOf("deployments") :
                ~Falsy(Field(ret[1].result.rows[i], Qualify("services", name)))
          => LeftWins(ret[1].result.rows[i])

-----------------------------------------------------------------------------
(* Properties of the registry under interleaved calls *)

\* C28: whatever the interleaving of registerPlugin, unregisterPlugin and
\* cleanup at their awaits, every name in the initialized set is a key of the
\* plugins map, and a registration whose initialize failed has removed from
\* the map no plugin object but its own.
RegistryConsistent ==
    /\ \A name \in initialized : HasPlugin(name)
    /\ \A object \in PluginObjects :
          /\ outcome # <<>>
          /\ outcome[1].op = "registerPlugin"
          /\ outcome[1].object = object
          /\ objects[object].status = "failed"
          => \A k \in 1..Len(outcome[1].pluginsBefore) :
                outcome[1].pluginsBefore[k].object # object
                => \E j \in 1..Len(plugins) : plugins[j] = outcome[1].pluginsBefore[k]

\* The first half alone: the initialized names are keys of the plugins map.
InitializedAreRegistered == \A name \in initialized : HasPlugin(name)

\* The second half alone.
FailureRemovesOwnEntry ==
    \A object \in PluginObjects :
        /\ outcome # <<>>
        /\ outcome[1].op = "registerPlugin"
        /\ outcome[1].object = object
        /\ objects[object].status = "failed"
        => \A k \in 1..Len(outcome[1].pluginsBefore) :
              outcome[1].pluginsBefore[k].object # object
              => \E j \in 1..Len(plugins) : plugins[j] = outcome[1].pluginsBefore[k]

-----------------------------------------------------------------------------
(* Properties of invalidation *)

\* C29: an executeSelect call that probed the cache and was suspended in its
\* fetch while clear, or clearTable for its table, ran stores nothing when it
\* completes: the cache holds no entry for the rows it fetched.
InvalidationKept ==
    [][/\ inflight # NoInflight
       /\ inflight' = NoInflight
       /\ inflight[1].probed # <<>>
       /\ inflight[1].invalidated
       => /\ cache' = cache
          /\ ret'[1].stored = <<>>]_vars

\* A call that probed and was not overtaken by a clear stores its result
\* while the cache is enabled.
UninvalidatedStored ==
    [][/\ inflight # NoInflight
       /\ inflight' = NoInflight
       /\ inflight[1].probed # <<>>
       /\ ~inflight[1].invalidated
       /\ enabled
       => ret'[1].stored # <<>>]_vars

=============================================================================
